---- MODULE Spec2Model ----
(***************************************************************************)
(* State-machine model of the AAPack clusterer, vpr/SRC/pack/cluster.cpp:  *)
(* do_clustering, start_new_cluster, try_pack_molecule,                    *)
(* try_place_atom_block_rec, revert_place_atom_block, the lookahead pin    *)
(* accounting, update_cluster_stats and the candidate selection.           *)
(*                                                                         *)
(* The architecture (pb-graph) and the atom netlists are small fixed       *)
(* tables; the intra-cluster router, the placement enumerator and the      *)
(* grid allocator are external and are modelled by their contracts.        *)
(***************************************************************************)
EXTENDS Integers, Sequences, FiniteSets, TLC

(***************************************************************************)
(* Bounds of the model.                                                    *)
(***************************************************************************)
\* number of times the intra-cluster router may answer "unroutable" in a run
MaxRouteFails == 3
\* largest grid dimension; stands in for MAX_SHORT of the packer range check
MaxGridDim == 4
\* the max_queue_size the candidate queue is exercised with on its own
MaxQueueSize == 4
\* the longest placement file read_place is run on, in lines
MaxLines == 4

(***************************************************************************)
(* Program constants.                                                      *)
(***************************************************************************)
NO_CLUSTER == -1
NOT_VALID == -1
AAPACK_MAX_FEASIBLE_BLOCK_ARRAY_SIZE == 30
AAPACK_MAX_NET_SINKS_IGNORE == 256
AAPACK_MAX_TRANSITIVE_FANOUT_EXPLORE == 4
AAPACK_MAX_TRANSITIVE_EXPLORE == 4
AAPACK_MAX_HIGH_FANOUT_EXPLORE == 10
E_DETAILED_ROUTE_AT_END_ONLY == 0
E_DETAILED_ROUTE_FOR_EACH_ATOM == 1
E_DETAILED_ROUTE_END == 2

(***************************************************************************)
(* Architecture view: the expanded pb-graph of three block types.          *)
(*   type 0  EMPTY                                                         *)
(*   type 1  clb    : node 1, one mode: ble[0..1] (nodes 2,3), each ble    *)
(*                    one mode: lut (4,6) and ff (5,7)                     *)
(*   type 2  arith  : node 8, one mode: adder[0..1] (nodes 9,10); the      *)
(*                    chain root pin is adder[0].cin                       *)
(*   type 3  memory : node 11, two modes: mode 0 slice[0..1] (12,13),      *)
(*                    mode 1 one wide slice (14); slices are MEMORY_CLASS  *)
(***************************************************************************)
Nodes == 1..14
BlockTypes == 0..3
EMPTY_TYPE == 0
num_block_types == 4

NodeParent       == <<0, 1, 1, 2, 2, 3, 3, 0, 8, 8, 0, 11, 11, 11>>
NodeParentMode   == <<0, 0, 0, 0, 0, 0, 0, 0, 0, 0, 0, 0, 0, 1>>
NodeNumModes     == <<1, 1, 1, 0, 0, 0, 0, 1, 0, 0, 2, 0, 0, 0>>
NodeDepth        == <<0, 1, 1, 2, 2, 2, 2, 0, 1, 1, 0, 1, 1, 1>>
NodeModel        == <<"-", "-", "-", "lut", "ff", "lut", "ff", "-",
                      "adder", "adder", "-", "mem", "mem", "mem">>
NodeMemoryClass  == <<FALSE, FALSE, FALSE, FALSE, FALSE, FALSE, FALSE, FALSE,
                      FALSE, FALSE, FALSE, TRUE, TRUE, TRUE>>
\* size of the single input / output pin class of each non-primitive node
input_pin_class_size  == <<2, 2, 2, 0, 0, 0, 0, 3, 0, 0, 2, 0, 0, 0>>
output_pin_class_size == <<1, 2, 2, 0, 0, 0, 0, 2, 0, 0, 2, 0, 0, 0>>

pb_graph_head(t) == CASE t = 1 -> 1 [] t = 2 -> 8 [] t = 3 -> 11 [] OTHER -> 0

IsPrimitive(n) == NodeNumModes[n] = 0

ChildrenOf(n, mode) == {c \in Nodes : NodeParent[c] = n /\ NodeParentMode[c] = mode}

RECURSIVE AncestorsOf(_)
\* the pb-graph nodes strictly above n, nearest first
AncestorsOf(n) == IF NodeParent[n] = 0 THEN <<>>
                  ELSE <<NodeParent[n]>> \o AncestorsOf(NodeParent[n])

SeqToSet(s) == {s[i] : i \in 1..Len(s)}

RootOf(n) == IF NodeParent[n] = 0 THEN n ELSE AncestorsOf(n)[Len(AncestorsOf(n))]

RECURSIVE DescendantsOf(_)
DescendantsOf(n) == LET kids == {c \in Nodes : NodeParent[c] = n}
                    IN  kids \cup UNION {DescendantsOf(c) : c \in kids}

\* ports of the primitive models whose port_class starts with "data"
IsDataPort(model, port) == model = "mem" /\ port \in {"data", "out"}

\* the ports of a model, inputs then outputs, with their width
ModelPorts(model) ==
    CASE model = "lut"   -> <<[port |-> "in", size |-> 2], [port |-> "out", size |-> 1]>>
      [] model = "ff"    -> <<[port |-> "D", size |-> 1], [port |-> "Q", size |-> 1]>>
      [] model = "adder" -> <<[port |-> "a", size |-> 1], [port |-> "cin", size |-> 1],
                              [port |-> "cout", size |-> 1]>>
      [] model = "mem"   -> <<[port |-> "addr", size |-> 1], [port |-> "data", size |-> 1],
                              [port |-> "out", size |-> 1]>>
      [] OTHER -> <<>>

\* list_of_connectable_input_pin_ptrs[depth] of the output pin of primitive n:
\* the primitive input pins <<node, port, bit>> it reaches inside its
\* ancestor at that depth
ConnectableInputPins(n, depth) ==
    LET lutIns == {<<x, "in", b>> : x \in {4, 6}, b \in {0, 1}}
    IN  CASE n = 4 -> IF depth = 1 THEN {<<5, "D", 0>>} ELSE {<<5, "D", 0>>} \cup lutIns
          [] n = 6 -> IF depth = 1 THEN {<<7, "D", 0>>} ELSE {<<7, "D", 0>>} \cup lutIns
          [] n \in {5, 7} -> IF depth = 1 THEN {} ELSE lutIns
          [] n = 9 -> {<<10, "cin", 0>>}
          [] OTHER -> {}

\* the dedicated carry input of the arith block: pack_pattern->chain_root_pin
chain_root_pin == [parent_node |-> 9, port |-> "cin", pin_number |-> 0]

(***************************************************************************)
(* Atom netlists and molecule stores the packer is run on.  An atom pin is *)
(* [port, bit, kind, net]; a net has one driver pin (kind "out") and its   *)
(* sinks are the "in"/"clk" pins that name it.  A molecule is an array of  *)
(* atom slots (0 = empty slot).                                            *)
(***************************************************************************)
Pin(port, bit, kind, net) == [port |-> port, bit |-> bit, kind |-> kind, net |-> net]

Mol(atoms, forced, chain, root, gain, ext) ==
    [atom_block_ids |-> atoms, forced |-> forced, is_chain |-> chain, root |-> root,
     base_gain |-> gain, num_ext_inputs |-> ext]

\* LUT -> FF pair plus two more LUTs; molecules {l1,f1}, {l1}, {f1}, {l2}, {l3}
NetlistLutFf ==
    [model |-> <<"lut", "ff", "lut", "lut">>,
     pins  |-> << <<Pin("in", 0, "in", 4), Pin("out", 0, "out", 1)>>,
                  <<Pin("D", 0, "in", 1), Pin("Q", 0, "out", 2)>>,
                  <<Pin("in", 0, "in", 2), Pin("in", 1, "in", 4), Pin("out", 0, "out", 3)>>,
                  <<Pin("in", 0, "in", 3), Pin("in", 1, "in", 2), Pin("out", 0, "out", 4)>> >>,
     num_nets |-> 4,
     molecules |-> << Mol(<<1, 2>>, TRUE, FALSE, 1, 5, 1),
                      Mol(<<1>>, FALSE, FALSE, 1, 2, 1),
                      Mol(<<2>>, FALSE, FALSE, 1, 1, 1),
                      Mol(<<3>>, FALSE, FALSE, 1, 4, 2),
                      Mol(<<4>>, FALSE, FALSE, 1, 3, 2) >>,
     crit |-> <<2, 1, 1, 0>>]

\* carry chain a0 -> a1 -> a2 fed by one LUT; the chain is cut into the
\* molecules {a0,a1} and {a2}; a2 has its cin connected
NetlistChain ==
    [model |-> <<"adder", "adder", "adder", "lut">>,
     pins  |-> << <<Pin("a", 0, "in", 3), Pin("cout", 0, "out", 1)>>,
                  <<Pin("a", 0, "in", 3), Pin("cin", 0, "in", 1), Pin("cout", 0, "out", 2)>>,
                  <<Pin("a", 0, "in", 3), Pin("cin", 0, "in", 2)>>,
                  <<Pin("out", 0, "out", 3)>> >>,
     num_nets |-> 3,
     molecules |-> << Mol(<<1, 2>>, TRUE, TRUE, 1, 3, 1),
                      Mol(<<3>>, TRUE, TRUE, 1, 2, 2),
                      Mol(<<4>>, FALSE, FALSE, 1, 1, 0) >>,
     crit |-> <<3, 2, 1, 0>>]

\* three memory slices: m0 and m1 share the address net, m2 does not; m2 and
\* the LUT that drives the address net are equally critical
NetlistMem ==
    [model |-> <<"mem", "mem", "mem", "lut">>,
     pins  |-> << <<Pin("addr", 0, "in", 1), Pin("out", 0, "out", 3)>>,
                  <<Pin("addr", 0, "in", 1), Pin("data", 0, "in", 3), Pin("out", 0, "out", 2)>>,
                  <<Pin("addr", 0, "in", 2)>>,
                  <<Pin("out", 0, "out", 1)>> >>,
     num_nets |-> 3,
     molecules |-> << Mol(<<1>>, FALSE, FALSE, 1, 4, 1),
                      Mol(<<2>>, FALSE, FALSE, 1, 3, 2),
                      Mol(<<3>>, FALSE, FALSE, 1, 2, 1),
                      Mol(<<4>>, FALSE, FALSE, 1, 1, 0) >>,
     crit |-> <<2, 3, 1, 1>>]

Netlists == <<NetlistLutFf, NetlistChain, NetlistMem>>

Atoms == 1..4
Nets == 1..4
\* clb[] is allocated with one entry per atom (calloc of blocks().size())
ClbIndexes == 0..3

VARIABLES
    opt,        \* inputs of do_clustering: netlist, options, sorted seed array
    lookup,     \* atom_ctx.lookup: atom_clb, atom_pb and the reverse pb_atom
    valid,      \* molecule -> its valid flag
    clb,        \* clb[0..]: name and type of every cluster
    pbs,        \* the pb tree of every cluster, by pb-graph node
    ctl,        \* locals of do_clustering
    dev,        \* device_ctx.nx/ny and the used/available instance counts
    cps,        \* cluster placement stats of the open cluster
    router,     \* router_data of the open cluster and the saved routings
    nets_in_lb, \* clb_inter_blk_nets[].nets_in_lb
    snc,        \* locals of start_new_cluster
    tp,         \* locals of try_pack_molecule
    pc,         \* position of the single thread of control
    err,        \* the fatal error raised, "" if none
    rp          \* locals of read_place and place_ctx.block_locs

vars == <<opt, lookup, valid, clb, pbs, ctl, dev, cps, router, nets_in_lb, snc, tp, pc, err, rp>>

NL == opt.netlist
Molecules == 1..Len(NL.molecules)
molecule(m) == NL.molecules[m]
get_array_size_of_molecule(m) == Len(molecule(m).atom_block_ids)
MoleculeAtoms(m) == {a \in Atoms : \E i \in 1..get_array_size_of_molecule(m) :
                                       molecule(m).atom_block_ids[i] = a}
\* atom_molecules.equal_range(blk): the molecules that contain the atom
atom_molecules(a) == {m \in Molecules : a \in MoleculeAtoms(m)}

block_pins(a) == NL.pins[a]
PinsOfKind(a, kinds) == SelectSeq(block_pins(a), LAMBDA p : p.kind \in kinds)
block_input_pins(a) == PinsOfKind(a, {"in"})
block_output_pins(a) == PinsOfKind(a, {"out"})
block_clock_pins(a) == PinsOfKind(a, {"clk"})

\* port_net(find_port(blk, port), ipin): 0 when the port or pin is not connected
port_net(a, port, bit) ==
    LET hit == {i \in 1..Len(block_pins(a)) :
                    block_pins(a)[i].port = port /\ block_pins(a)[i].bit = bit}
    IN  IF hit = {} THEN 0 ELSE block_pins(a)[CHOOSE i \in hit : TRUE].net

\* the pins of atom a on a net as <<atom, pin>> pairs
TagPins(a, ps) == [i \in 1..Len(ps) |-> <<a, ps[i]>>]
AtomPinsOn(a, net, kinds) ==
    TagPins(a, SelectSeq(block_pins(a), LAMBDA p : p.net = net /\ p.kind \in kinds))
\* the pins of the given kinds of a net, by atom id
NetPinsOfKind(net, kinds) ==
    AtomPinsOn(1, net, kinds) \o AtomPinsOn(2, net, kinds)
    \o AtomPinsOn(3, net, kinds) \o AtomPinsOn(4, net, kinds)
net_sinks(net) == NetPinsOfKind(net, {"in", "clk"})
\* net_pins: the driver first, then the sinks
net_pins(net) == NetPinsOfKind(net, {"out"}) \o NetPinsOfKind(net, {"in", "clk"})
FirstAtomOf(ps) == IF ps = <<>> THEN 0 ELSE ps[1][1]
net_driver_block(net) == FirstAtomOf(NetPinsOfKind(net, {"out"}))

(***************************************************************************)
(* AtomLookup: the two-way atom <-> pb mapping.  A pb is <<clb, node>>;    *)
(* NoPb stands for the null pointer.                                       *)
(***************************************************************************)
NoPb == <<NO_CLUSTER, 0>>

atom_clb(lk, a) == lk.atom_clb[a]
atom_pb(lk, a) == lk.atom_pb[a]
pb_atom(lk, pb) == lk.pb_atom[pb[1]][pb[2]]

set_atom_clb(lk, a, c) == [lk EXCEPT !.atom_clb[a] = c]

\* set_atom_pb(blk, pb): a null argument removes the mapping of the other one,
\* two valid arguments store the pair and drop what either was mapped to
set_atom_pb(lk, a, pb) ==
    IF a = 0 /\ pb # NoPb THEN
        LET old == pb_atom(lk, pb)
        IN  [lk EXCEPT !.pb_atom[pb[1]][pb[2]] = 0,
                       !.atom_pb = [x \in Atoms |-> IF x = old THEN NoPb ELSE @[x]]]
    ELSE IF a # 0 /\ pb = NoPb THEN
        LET old == atom_pb(lk, a)
        IN  [lk EXCEPT !.atom_pb[a] = NoPb,
                       !.pb_atom = [c \in ClbIndexes |-> [n \in Nodes |->
                                      IF <<c, n>> = old THEN 0 ELSE @[c][n]]]]
    ELSE IF a # 0 /\ pb # NoPb THEN
        LET oldpb == atom_pb(lk, a)
            olda  == pb_atom(lk, pb)
        IN  [lk EXCEPT !.atom_pb = [x \in Atoms |-> IF x = a THEN pb
                                                    ELSE IF x = olda THEN NoPb ELSE @[x]],
                       !.pb_atom = [c \in ClbIndexes |-> [n \in Nodes |->
                                      IF <<c, n>> = pb THEN a
                                      ELSE IF <<c, n>> = oldpb THEN 0 ELSE @[c][n]]]]
    ELSE lk

(***************************************************************************)
(* t_pb and t_pb_stats.  name is the atom whose name the pb carries (0 =   *)
(* null); child_pbs says whether the child table is allocated and          *)
(* child_mode the mode whose shape it was allocated with.                  *)
(***************************************************************************)
\* a count of 0 in num_pins_of_net_in_pb / sharinggain and a gain of -1 stand
\* for "no entry in the map"; gains are kept in units of 1/GainUnit
EmptyStats ==
    [num_child_blocks_in_pb |-> 0,
     lookahead_input_pins_used |-> <<>>, lookahead_output_pins_used |-> <<>>,
     input_pins_used |-> <<>>, output_pins_used |-> <<>>,
     num_feasible_blocks |-> NOT_VALID, feasible_blocks |-> <<>>,
     marked_nets |-> <<>>, num_pins_of_net_in_pb |-> [n \in Nets |-> 0],
     marked_blocks |-> <<>>, sharinggain |-> [a \in Atoms |-> 0],
     timinggain |-> [a \in Atoms |-> 0],
     gain |-> [a \in Atoms |-> -1],
     explore_transitive_fanout |-> FALSE,
     tie_break_high_fanout_net |-> 0,
     transitive_fanout_candidates |-> [loaded |-> FALSE, list |-> <<>>]]

EmptyPb == [name |-> 0, mode |-> 0, child_pbs |-> FALSE, child_mode |-> 0,
            pb_stats |-> FALSE, stats |-> EmptyStats]

InvalidNets(k) == [i \in 1..k |-> 0]

alloc_and_load_pb_stats(pb, n) ==
    [pb EXCEPT !.pb_stats = TRUE,
               !.stats = [EmptyStats EXCEPT
                            !.input_pins_used = InvalidNets(input_pin_class_size[n]),
                            !.output_pins_used = InvalidNets(output_pin_class_size[n])]]

free_pb_stats(pb) == [pb EXCEPT !.pb_stats = FALSE, !.stats = EmptyStats]

\* the pbs held by the child table of pb n of cluster tree T
ChildPbs(T, n) == IF T[n].child_pbs THEN ChildrenOf(n, T[n].child_mode) ELSE {}

(***************************************************************************)
(* The operators below transform a world record                            *)
(*   w = [pbs, lk, valid, rt]                                              *)
(* (pb trees, atom lookup, molecule valid flags, router data) the way the  *)
(* C++ functions transform the global state.                               *)
(***************************************************************************)

\* router data: the atoms registered as routing targets and the pbs whose
\* mode was switched on in the routing graph
add_atom_as_target(rt, a) == [rt EXCEPT !.targets = @ \cup {a}]
remove_atom_from_target(rt, a) == [rt EXCEPT !.targets = @ \ {a}]
set_reset_pb_modes(rt, n, on) ==
    [rt EXCEPT !.modes = IF on THEN @ \cup {n} ELSE @ \ {n}]

RECURSIVE NamedPrimitives(_, _)
\* the primitives reached from pb n through named pbs only
NamedPrimitives(T, n) ==
    IF T[n].name = 0 THEN {}
    ELSE IF IsPrimitive(n) THEN {n}
    ELSE UNION {NamedPrimitives(T, c) : c \in ChildPbs(T, n)}

\* unmap the atoms in A
UnmapAtoms(lk, A) ==
    [atom_clb |-> [a \in Atoms |-> IF a \in A THEN NO_CLUSTER ELSE lk.atom_clb[a]],
     atom_pb  |-> [a \in Atoms |-> IF a \in A THEN NoPb ELSE lk.atom_pb[a]],
     pb_atom  |-> [c \in ClbIndexes |-> [n \in Nodes |->
                     IF lk.pb_atom[c][n] \in A THEN 0 ELSE lk.pb_atom[c][n]]]]

\* revalid_molecules(pb): unmap every atom under the pb and set valid again
\* each invalid molecule of such an atom whose atoms are all unclustered
revalid_molecules(w, c, n) ==
    LET A   == {pb_atom(w.lk, <<c, x>>) : x \in NamedPrimitives(w.pbs[c], n)} \ {0}
        lk2 == UnmapAtoms(w.lk, A)
    IN  [w EXCEPT !.lk = lk2,
                  !.valid = [m \in DOMAIN w.valid |->
                               w.valid[m] \/ (/\ MoleculeAtoms(m) \cap A # {}
                                              /\ \A a \in MoleculeAtoms(m) :
                                                     lk2.atom_clb[a] = NO_CLUSTER)]]

\* free_pb(pb): drop the name, the children and the stats of the pb and the
\* mapping of every primitive below it
free_pb(w, c, n) ==
    LET sub == DescendantsOf(n)
        A   == {pb_atom(w.lk, <<c, x>>) : x \in sub \cup {n}} \ {0}
    IN  [w EXCEPT !.lk = UnmapAtoms(w.lk, A),
                  !.pbs[c] = [x \in Nodes |->
                                IF x \in sub THEN EmptyPb
                                ELSE IF x = n THEN [EmptyPb EXCEPT !.mode = w.pbs[c][n].mode]
                                ELSE @[x]]]

\* find_memory_sibling(pb): the atom of a named sibling slice under the same
\* parent, 0 if there is none
find_memory_sibling(w, c, n) ==
    LET sibs == {x \in ChildPbs(w.pbs[c], NodeParent[n]) \ {n} : w.pbs[c][x].name # 0}
    IN  IF sibs = {} THEN 0
        ELSE pb_atom(w.lk, <<c, CHOOSE x \in sibs : \A y \in sibs : x <= y>>)

primitive_type_feasible(a, n) == NL.model[a] = NodeModel[n]

\* fault: any atom is accepted beside a memory sibling
primitive_memory_sibling_feasible_any(a, n, sibling) == TRUE

\* every pin of every non-data port carries the same net on both atoms
primitive_memory_sibling_feasible(a, n, sibling) ==
    LET ports == ModelPorts(NodeModel[n])
    IN  \A i \in 1..Len(ports) :
            IsDataPort(NodeModel[n], ports[i].port)
            \/ \A bit \in 0..(ports[i].size - 1) :
                   port_net(a, ports[i].port, bit) = port_net(sibling, ports[i].port, bit)

primitive_feasible(w, a, c, n) ==
    LET cur == pb_atom(w.lk, <<c, n>>)
        sib == find_memory_sibling(w, c, n)
    IN  IF cur # 0 /\ cur # a THEN FALSE
        ELSE IF NodeMemoryClass[n] /\ sib # 0
                /\ ~primitive_memory_sibling_feasible(a, n, sib) THEN FALSE
        ELSE primitive_type_feasible(a, n)

\* the VTR_ASSERTs on the parent pb of pb-graph node x
ParentAssertsFail(w, x, c) ==
    LET ppb == w.pbs[c][NodeParent[x]]
    IN  IF ~ppb.child_pbs THEN ppb.name # 0
        ELSE ppb.mode # NodeParentMode[x] \/ ppb.child_mode # NodeParentMode[x]

\* first time under the parent: name it, fix its mode, allocate the children
OpenParent(w, x, a, c) ==
    LET par == NodeParent[x]
    IN  IF w.pbs[c][par].child_pbs THEN w
        ELSE [w EXCEPT !.lk = set_atom_pb(w.lk, 0, <<c, par>>),
                       !.pbs[c][par] = [@ EXCEPT !.name = a,
                                                 !.mode = NodeParentMode[x],
                                                 !.child_pbs = TRUE,
                                                 !.child_mode = NodeParentMode[x]],
                       !.rt = set_reset_pb_modes(w.rt, par, TRUE)]

\* the pb of node x gets its stats the first time it is reached
EnsurePbStats(w, x, c) ==
    IF w.pbs[c][x].pb_stats THEN w
    ELSE [w EXCEPT !.pbs[c][x] = alloc_and_load_pb_stats(@, x)]

\* fault: the root of a chain is accepted on any primitive
PlacePrimitive_any_chain_position(w, x, a, c, is_root_of_chain, chain_pin) ==
    LET mapped == \/ pb_atom(w.lk, <<c, x>>) # 0
                  \/ atom_pb(w.lk, a) # NoPb
                  \/ atom_clb(w.lk, a) # NO_CLUSTER
        w3     == [w EXCEPT !.pbs[c][x].name = a,
                            !.lk = set_atom_pb(set_atom_clb(w.lk, a, c), a, <<c, x>>),
                            !.rt = add_atom_as_target(w.rt, a)]
    IN  IF mapped THEN [w |-> w, status |-> "ASSERT"]
        ELSE IF ~primitive_feasible(w3, a, c, x)
        THEN [w |-> w3, status |-> "BLK_FAILED_FEASIBLE"]
        ELSE [w |-> w3, status |-> "BLK_PASSED"]

\* the primitive branch: map the atom, then the feasibility and chain tests
PlacePrimitive(w, x, a, c, is_root_of_chain, chain_pin) ==
    LET mapped == \/ pb_atom(w.lk, <<c, x>>) # 0
                  \/ atom_pb(w.lk, a) # NoPb
                  \/ atom_clb(w.lk, a) # NO_CLUSTER
        w3     == [w EXCEPT !.pbs[c][x].name = a,
                            !.lk = set_atom_pb(set_atom_clb(w.lk, a, c), a, <<c, x>>),
                            !.rt = add_atom_as_target(w.rt, a)]
        chainbad == /\ is_root_of_chain
                    /\ chain_pin.parent_node # 0
                    /\ port_net(a, chain_pin.port, chain_pin.pin_number) # 0
                    /\ chain_pin.parent_node # x
    IN  IF mapped THEN [w |-> w, status |-> "ASSERT"]
        ELSE IF ~primitive_feasible(w3, a, c, x) \/ chainbad
        THEN [w |-> w3, status |-> "BLK_FAILED_FEASIBLE"]
        ELSE [w |-> w3, status |-> "BLK_PASSED"]

\* the part of a frame below the parent: stats, then the primitive if x is one
PlaceInNode(w, x, a, c, is_root_of_chain, chain_pin) ==
    IF ~IsPrimitive(x) THEN [w |-> w, status |-> "BLK_PASSED"]
    ELSE PlacePrimitive(w, x, a, c, is_root_of_chain, chain_pin)

\* one frame of try_place_atom_block_rec, for pb-graph node x on the path
\* from the child of the root down to the primitive.  r = [w, status].
PlaceFrame(r, x, a, c, is_root_of_chain, chain_pin) ==
    IF r.status = "ASSERT" THEN r
    ELSE IF ParentAssertsFail(r.w, x, c) THEN [w |-> r.w, status |-> "ASSERT"]
    ELSE PlaceInNode(EnsurePbStats(OpenParent(r.w, x, a, c), x, c), x, a, c,
                     is_root_of_chain, chain_pin)

RECURSIVE PlaceAlong(_, _, _, _, _, _)
PlaceAlong(r, path, a, c, is_root_of_chain, chain_pin) ==
    IF path = <<>> THEN r
    ELSE PlaceAlong(PlaceFrame(r, Head(path), a, c, is_root_of_chain, chain_pin),
                    Tail(path), a, c, is_root_of_chain, chain_pin)

Reverse(s) == [i \in 1..Len(s) |-> s[Len(s) + 1 - i]]

\* try_place_atom_block_rec(pb_graph_node, blk, cb, ...): the recursion runs
\* the frames top-down, the frame of the primitive last
try_place_atom_block_rec(w, n, a, c, is_root_of_chain, chain_pin) ==
    LET anc  == AncestorsOf(n)
        path == Reverse(<<n>> \o SubSeq(anc, 1, Len(anc) - 1))
    IN  PlaceAlong([w |-> w, status |-> "BLK_PASSED"], path, a, c,
                   is_root_of_chain, chain_pin)

RECURSIVE RevertAncestors_frees_counted_pbs(_, _, _)
\* fault: the loop frees the pbs above the atom whatever they count
RevertAncestors_frees_counted_pbs(w, c, path) ==
    IF path = <<>> THEN w
    ELSE LET n    == Head(path)
             pb   == w.pbs[c][n]
             next == NodeParent[n]
             hit  == pb.child_pbs /\ pb.pb_stats
             w1   == IF hit THEN [w EXCEPT !.rt = set_reset_pb_modes(w.rt, n, FALSE)] ELSE w
             w2   == IF hit /\ next # 0 THEN free_pb(revalid_molecules(w1, c, n), c, n) ELSE w1
         IN  RevertAncestors_frees_counted_pbs(w2, c, Tail(path))

RECURSIVE RevertAncestors(_, _, _)
\* the while loop of revert_place_atom_block over the ancestors of the pb
RevertAncestors(w, c, path) ==
    IF path = <<>> THEN w
    ELSE LET n    == Head(path)
             pb   == w.pbs[c][n]
             next == NodeParent[n]
             hit  == pb.child_pbs /\ pb.pb_stats /\ pb.stats.num_child_blocks_in_pb = 0
             w1   == IF hit THEN [w EXCEPT !.rt = set_reset_pb_modes(w.rt, n, FALSE)] ELSE w
             w2   == IF hit /\ next # 0 THEN free_pb(revalid_molecules(w1, c, n), c, n) ELSE w1
         IN  RevertAncestors(w2, c, Tail(path))

\* fault: the atom keeps its cluster when its placement is reverted
revert_place_atom_block_keeps_cluster(w, a) ==
    LET pb == atom_pb(w.lk, a)
        w1 == [w EXCEPT !.lk = set_atom_pb(w.lk, a, NoPb)]
    IN  IF pb = NoPb THEN w1
        ELSE RevertAncestors(free_pb(revalid_molecules(w1, pb[1], pb[2]), pb[1], pb[2]),
                             pb[1], AncestorsOf(pb[2]))

revert_place_atom_block(w, a) ==
    LET pb == atom_pb(w.lk, a)
        w1 == [w EXCEPT !.lk = set_atom_pb(set_atom_clb(w.lk, a, NO_CLUSTER), a, NoPb)]
    IN  IF pb = NoPb THEN w1
        ELSE RevertAncestors(free_pb(revalid_molecules(w1, pb[1], pb[2]), pb[1], pb[2]),
                             pb[1], AncestorsOf(pb[2]))

(***************************************************************************)
(* Lookahead pin accounting.  T is the pb tree of cluster c.               *)
(***************************************************************************)
RECURSIVE SortedSeq(_)
\* the elements of a set of integers in increasing order
SortedSeq(S) == IF S = {} THEN <<>>
                ELSE LET m == CHOOSE x \in S : \A y \in S : x <= y
                     IN  <<m>> \o SortedSeq(S \ {m})

RECURSIVE NamedPbs(_, _)
\* the pbs visited by the recursions that descend through named pbs
NamedPbs(T, n) ==
    IF ~IsPrimitive(n) /\ T[n].name # 0
    THEN {n} \cup UNION {NamedPbs(T, x) : x \in ChildPbs(T, n)}
    ELSE {n}

reset_lookahead_pins_used(T, n) ==
    LET hit == {x \in NamedPbs(T, n) : ~IsPrimitive(x) /\ T[x].name # 0 /\ T[x].pb_stats}
        \* the recursion stops below a pb that has no stats
        ok(x) == \A y \in SeqToSet(AncestorsOf(x)) \cap NamedPbs(T, n) : T[y].pb_stats
    IN  [x \in Nodes |-> IF x \in hit /\ ok(x)
                         THEN [T[x] EXCEPT !.stats.lookahead_input_pins_used = <<>>,
                                           !.stats.lookahead_output_pins_used = <<>>]
                         ELSE T[x]]

net_sinks_reachable_in_cluster(lk, n, depth, net) ==
    LET sinks == net_sinks(net)
        sink_pb_gpins == {<<atom_pb(lk, sinks[i][1])[2], sinks[i][2].port, sinks[i][2].bit>> :
                              i \in 1..Len(sinks)}
    IN  /\ Len(sinks) > 0
        /\ Cardinality(ConnectableInputPins(n, depth) \cap sink_pb_gpins) >= Len(sinks)

\* fault: an input pin is charged whether or not its driver is inside
MarkPinAt_charges_every_input(T, lk, cur, n, a, pin) ==
    LET depth  == NodeDepth[cur]
        net    == pin.net
        drv    == net_driver_block(net)
        la_in  == T[cur].stats.lookahead_input_pins_used
        sinks  == net_sinks(net)
        absorbed ==
            /\ Cardinality(ConnectableInputPins(n, depth)) >= Len(sinks)
            /\ \A i \in 1..Len(sinks) : atom_clb(lk, sinks[i][1]) = atom_clb(lk, drv)
            /\ net_sinks_reachable_in_cluster(lk, n, depth, net)
    IN  IF pin.kind \in {"in", "clk"}
        THEN IF net \in SeqToSet(la_in) THEN T
             ELSE [T EXCEPT ![cur].stats.lookahead_input_pins_used = Append(@, net)]
        ELSE IF absorbed THEN T
             ELSE [T EXCEPT ![cur].stats.lookahead_output_pins_used = Append(@, net)]

\* the body of the while loop of compute_and_mark_lookahead_pins_used_for_pin
\* for ancestor cur of the primitive n that holds atom a
MarkPinAt(T, lk, cur, n, a, pin) ==
    LET depth  == NodeDepth[cur]
        net    == pin.net
        drv    == net_driver_block(net)
        same   == drv # 0 /\ atom_clb(lk, drv) = atom_clb(lk, a)
        dnode  == atom_pb(lk, drv)[2]
        inside == cur = dnode \/ cur \in SeqToSet(AncestorsOf(dnode))
        skip   == same /\ inside /\ <<n, pin.port, pin.bit>> \in ConnectableInputPins(dnode, depth)
        la_in  == T[cur].stats.lookahead_input_pins_used
        sinks  == net_sinks(net)
        absorbed ==
            /\ Cardinality(ConnectableInputPins(n, depth)) >= Len(sinks)
            /\ \A i \in 1..Len(sinks) : atom_clb(lk, sinks[i][1]) = atom_clb(lk, drv)
            /\ net_sinks_reachable_in_cluster(lk, n, depth, net)
    IN  IF pin.kind \in {"in", "clk"}
        THEN IF skip \/ net \in SeqToSet(la_in) THEN T
             ELSE [T EXCEPT ![cur].stats.lookahead_input_pins_used = Append(@, net)]
        ELSE IF absorbed THEN T
             ELSE [T EXCEPT ![cur].stats.lookahead_output_pins_used = Append(@, net)]

RECURSIVE MarkPinUp(_, _, _, _, _, _)
MarkPinUp(T, lk, ancs, n, a, pin) ==
    IF ancs = <<>> THEN T
    ELSE MarkPinUp(MarkPinAt(T, lk, Head(ancs), n, a, pin), lk, Tail(ancs), n, a, pin)

RECURSIVE MarkPins(_, _, _, _)
\* compute_and_mark_lookahead_pins_used(blk): every pin of the atom in turn
\* (the pins are taken in order; the list is halved so that an atom of many
\* pins is evaluated without deep nesting)
MarkPins(T, lk, a, pins) ==
    IF pins = <<>> THEN T
    ELSE IF Len(pins) = 1
    THEN LET n == atom_pb(lk, a)[2]
         IN  MarkPinUp(T, lk, AncestorsOf(n), n, a, Head(pins))
    ELSE LET half == Len(pins) \div 2
             mid  == MarkPins(T, lk, a, SubSeq(pins, 1, half))
         IN  IF mid = mid THEN MarkPins(mid, lk, a, SubSeq(pins, half + 1, Len(pins)))
             ELSE T

RECURSIVE MarkPrimitives(_, _, _, _)
MarkPrimitives(T, lk, c, prims) ==
    IF prims = <<>> THEN T
    ELSE LET a == pb_atom(lk, <<c, Head(prims)>>)
         IN  MarkPrimitives(IF a = 0 THEN T ELSE MarkPins(T, lk, a, block_pins(a)),
                            lk, c, Tail(prims))

try_update_lookahead_pins_used(T, lk, c, n) ==
    MarkPrimitives(T, lk, c, SortedSeq({x \in NamedPbs(T, n) : IsPrimitive(x)}))

\* fault: the output pin classes are not checked
check_lookahead_pins_used_inputs_only(T, n) ==
    \A x \in NamedPbs(T, n) :
        (~IsPrimitive(x) /\ T[x].name # 0) =>
            Len(T[x].stats.lookahead_input_pins_used) <= input_pin_class_size[x]

check_lookahead_pins_used(T, n) ==
    \A x \in NamedPbs(T, n) :
        (~IsPrimitive(x) /\ T[x].name # 0) =>
            /\ Len(T[x].stats.lookahead_input_pins_used) <= input_pin_class_size[x]
            /\ Len(T[x].stats.lookahead_output_pins_used) <= output_pin_class_size[x]

\* positions of `used` overwritten by the lookahead list; the rest is kept
Overlay(used, la) == [i \in 1..Len(used) |-> IF i <= Len(la) THEN la[i] ELSE used[i]]

\* the VTR_ASSERTs of commit_lookahead_pins_used
CommitAssertsHold(T, n) ==
    \A x \in NamedPbs(T, n) :
        (~IsPrimitive(x) /\ T[x].name # 0) =>
            /\ Len(T[x].stats.lookahead_input_pins_used) <= input_pin_class_size[x]
            /\ Len(T[x].stats.lookahead_output_pins_used) <= output_pin_class_size[x]
            /\ \A i \in 1..Len(T[x].stats.lookahead_input_pins_used) :
                   T[x].stats.lookahead_input_pins_used[i] # 0
            /\ \A i \in 1..Len(T[x].stats.lookahead_output_pins_used) :
                   T[x].stats.lookahead_output_pins_used[i] # 0

commit_lookahead_pins_used(T, n) ==
    [x \in Nodes |->
        IF x \in NamedPbs(T, n) /\ ~IsPrimitive(x) /\ T[x].name # 0
        THEN [T[x] EXCEPT
                !.stats.input_pins_used = Overlay(@, T[x].stats.lookahead_input_pins_used),
                !.stats.output_pins_used = Overlay(@, T[x].stats.lookahead_output_pins_used)]
        ELSE T[x]]

(***************************************************************************)
(* Gains.  The float gains of the C++ are kept as integers in units of     *)
(* 1/GainUnit: sharinggain / num_used_pins is exact for 1..3 pins, the     *)
(* base-gain tie breaker 0.0001 is 6 units and the penalties 0.001 are 60. *)
(* The packer is run with alpha = 0 and connection_driven = false, so the  *)
(* total gain is the normalised sharing gain.  hillgain is written on the  *)
(* same lines as sharinggain and read nowhere, so it is not kept; the      *)
(* timing gain is kept in units of the pin criticalities.                  *)
(***************************************************************************)
GainUnit == 60000

net_output_feeds_driving_block_input(net) ==
    LET sinks == net_sinks(net)
    IN  Cardinality({i \in 1..Len(sinks) : sinks[i][1] = net_driver_block(net)})

\* the loop over the pins of a net first seen in a pb: every unclustered
\* atom on the net is counted once per pin, and marked at its first pin if
\* it had no sharing gain yet
MarkBlocks(st, lk, pins) ==
    LET free   == SelectSeq(pins, LAMBDA p : atom_clb(lk, p[1]) = NO_CLUSTER)
        firsts == {i \in 1..Len(free) :
                      /\ st.sharinggain[free[i][1]] = 0
                      /\ \A j \in 1..(i - 1) : free[j][1] # free[i][1]}
        order  == SortedSeq(firsts)
    IN  [st EXCEPT !.marked_blocks = @ \o [i \in 1..Len(order) |-> free[order[i]][1]],
                   !.sharinggain = [b \in Atoms |->
                        @[b] + Cardinality({i \in 1..Len(free) : free[i][1] = b})]]

\* is_clock.count(net): the nets the caller of do_clustering names clocks
IsClockNet(net) == "is_clock" \in DOMAIN NL /\ net \in NL.is_clock

\* is_global.count(net): do_clustering hands its set of clock nets on both
\* as is_clock and as is_global
IsGlobalNet(net) == IsClockNet(net)

\* the packer option global_clocks; off when the run does not give it
GlobalClocks == "global_clocks" \in DOMAIN opt /\ opt.global_clocks

MaxOf(S) == CHOOSE x \in S : \A y \in S : y <= x

\* timing_info.setup_pin_criticality(pin) of the pin <<atom, pin>>: the runs
\* with timing information give the criticality of the first sink pin of
\* each atom, every other pin has none
PinCriticality(p) ==
    LET sinks == PinsOfKind(p[1], {"in", "clk"})
    IN  IF "pin_crit" \in DOMAIN opt /\ sinks # <<>> /\ sinks[1] = p[2]
        THEN opt.pin_crit[p[1]] ELSE 0

MaxCriticality(ps) == MaxOf({0} \cup {PinCriticality(ps[i]) : i \in 1..Len(ps)})

\* update_timing_gain_values: the most critical pin between the cluster and
\* an unclustered atom, over the nets that are not global
update_timing_gain_values(st, lk, net, relation) ==
    LET pins   == IF net_output_feeds_driving_block_input(net) # 0
                  THEN net_sinks(net) ELSE net_pins(net)
        free   == SelectSeq(pins, LAMBDA p : atom_clb(lk, p[1]) = NO_CLUSTER)
        driver == net_driver_block(net)
    IN  IF IsGlobalNet(net) THEN st
        ELSE IF relation = "OUTPUT"
        THEN [st EXCEPT !.timinggain = [b \in Atoms |->
                 MaxOf({@[b], MaxCriticality(SelectSeq(free, LAMBDA p : p[1] = b))})]]
        ELSE IF driver # 0 /\ atom_clb(lk, driver) = NO_CLUSTER
        THEN [st EXCEPT !.timinggain[driver] = MaxOf({@, MaxCriticality(net_sinks(net))})]
        ELSE st

RECURSIVE MarkNetUp(_, _, _, _, _, _)
\* the while loop of mark_and_update_partial_gain over the ancestors; gain
\* is gain_flag == GAIN
MarkNetUp(T, lk, ancs, net, gain, relation) ==
    IF ancs = <<>> THEN T
    ELSE LET cur   == Head(ancs)
             st    == T[cur].stats
             first == st.num_pins_of_net_in_pb[net] = 0
             pins  == IF net_output_feeds_driving_block_input(net) # 0
                      THEN net_sinks(net) ELSE net_pins(net)
             st1   == IF first THEN [st EXCEPT !.marked_nets = Append(@, net)] ELSE st
             st2   == IF first /\ gain THEN MarkBlocks(st1, lk, pins) ELSE st1
             st2t  == IF gain /\ "pin_crit" \in DOMAIN opt
                      THEN update_timing_gain_values(st2, lk, net, relation) ELSE st2
             st3   == [st2t EXCEPT !.num_pins_of_net_in_pb[net] = @ + 1]
         IN  MarkNetUp([T EXCEPT ![cur].stats = st3], lk, Tail(ancs), net, gain, relation)

\* fault: the last net of many sinks that is touched is the one stored
StoreTieBreak_keeps_the_last(T, lk, net, a) ==
    [T EXCEPT ![RootOf(atom_pb(lk, a)[2])].stats.tie_break_high_fanout_net = net]

\* the branch of mark_and_update_partial_gain for a net of many sinks: the
\* net is stored at the root pb when none is stored or it has fewer sinks
StoreTieBreak(T, lk, net, a) ==
    LET root   == RootOf(atom_pb(lk, a)[2])
        stored == T[root].stats.tie_break_high_fanout_net
    IN  IF IsGlobalNet(net) THEN T
        ELSE IF stored = 0 \/ Len(net_sinks(net)) < Len(net_sinks(stored))
        THEN [T EXCEPT ![root].stats.tie_break_high_fanout_net = net]
        ELSE T

\* fault: a net of exactly AAPACK_MAX_NET_SINKS_IGNORE sinks is ignored too
mark_and_update_partial_gain_ignores_one_less(T, lk, net, a, gain, relation) ==
    IF Len(net_sinks(net)) >= AAPACK_MAX_NET_SINKS_IGNORE THEN StoreTieBreak(T, lk, net, a)
    ELSE MarkNetUp(T, lk, AncestorsOf(atom_pb(lk, a)[2]), net, gain, relation)

mark_and_update_partial_gain(T, lk, net, a, gain, relation) ==
    IF Len(net_sinks(net)) > AAPACK_MAX_NET_SINKS_IGNORE THEN StoreTieBreak(T, lk, net, a)
    ELSE MarkNetUp(T, lk, AncestorsOf(atom_pb(lk, a)[2]), net, gain, relation)

\* fault: a pin on a clock net gets no gain whatever global_clocks says
gain_flag_never_for_clock_nets(pin) ==
    CASE pin.kind = "out" -> ~IsClockNet(pin.net)
      [] pin.kind = "in"  -> TRUE
      [] OTHER            -> FALSE

\* the gain_flag update_cluster_stats gives for a pin of the committed atom:
\* TRUE is GAIN, FALSE is NO_GAIN
gain_flag(pin) ==
    CASE pin.kind = "out" -> ~IsClockNet(pin.net) \/ ~GlobalClocks
      [] pin.kind = "in"  -> TRUE
      [] OTHER            -> ~GlobalClocks

\* the relation to the clustered block update_cluster_stats names
net_relation_to_clustered_block(pin) == IF pin.kind = "out" THEN "OUTPUT" ELSE "INPUT"

RECURSIVE MarkNets(_, _, _, _)
\* the nets of the pins in order, the list halved as in MarkPins
MarkNets(T, lk, pins, a) ==
    IF pins = <<>> THEN T
    ELSE IF Len(pins) = 1
    THEN mark_and_update_partial_gain(T, lk, Head(pins).net, a, gain_flag(Head(pins)),
                                      net_relation_to_clustered_block(Head(pins)))
    ELSE LET half == Len(pins) \div 2
             mid  == MarkNets(T, lk, SubSeq(pins, 1, half), a)
         IN  IF mid = mid THEN MarkNets(mid, lk, SubSeq(pins, half + 1, Len(pins)), a)
             ELSE T

update_total_gain(T, n) ==
    LET up == SeqToSet(AncestorsOf(n))
    IN  [x \in Nodes |->
           IF x \in up
           THEN [T[x] EXCEPT !.stats.gain = [b \in Atoms |->
                    IF b \in SeqToSet(T[x].stats.marked_blocks)
                    THEN (T[x].stats.sharinggain[b] * GainUnit)
                         \div (Len(block_input_pins(b)) + Len(block_output_pins(b)))
                    ELSE @[b]]]
           ELSE T[x]]

\* the end of the per-atom body: commit the lookahead pins of the cluster
CommitPins(P, lk, T, c, cb) ==
    [pbs |-> [P EXCEPT ![c] = commit_lookahead_pins_used(T, cb)],
     lk  |-> lk,
     ok  |-> CommitAssertsHold(T, cb)]

\* fault: the candidate queues above the committed atom are kept
CountChild_keeps_the_queue(T, n) ==
    [x \in Nodes |->
        IF x \in SeqToSet(AncestorsOf(n))
        THEN [T[x] EXCEPT !.stats.num_child_blocks_in_pb = @ + 1]
        ELSE T[x]]

\* num_child_blocks_in_pb++ and num_feasible_blocks = NOT_VALID up the tree
CountChild(T, n) ==
    [x \in Nodes |->
        IF x \in SeqToSet(AncestorsOf(n))
        THEN [T[x] EXCEPT !.stats.num_feasible_blocks = NOT_VALID,
                          !.stats.num_child_blocks_in_pb = @ + 1]
        ELSE T[x]]

\* the per-atom body of update_cluster_stats; r = [pbs, lk, ok]
UpdateStatsForAtom(r, a, c) ==
    LET lk1 == set_atom_clb(r.lk, a, c)
        n   == atom_pb(r.lk, a)[2]
    IN  IF ~r.ok THEN r
        ELSE CommitPins(r.pbs, lk1,
                 update_total_gain(
                     MarkNets(MarkNets(MarkNets(CountChild(r.pbs[c], n),
                                                lk1, block_output_pins(a), a),
                                       lk1, block_input_pins(a), a),
                              lk1, block_clock_pins(a), a), n),
                 c, RootOf(n))

RECURSIVE UpdateStatsLoop(_, _, _)
UpdateStatsLoop(r, atoms, c) ==
    IF atoms = <<>> THEN r
    ELSE UpdateStatsLoop(IF Head(atoms) = 0 THEN r ELSE UpdateStatsForAtom(r, Head(atoms), c),
                         Tail(atoms), c)

\* update_cluster_stats(molecule, clb_index); ok is FALSE when an assertion
\* of commit_lookahead_pins_used fails
update_cluster_stats(P, lk, m, c) ==
    UpdateStatsLoop([pbs |-> P, lk |-> lk, ok |-> TRUE], molecule(m).atom_block_ids, c)

(***************************************************************************)
(* Cluster placement stats of the open cluster:                            *)
(* cps = [type, mode, committed, tried].                                   *)
(***************************************************************************)
\* the primitives that set_mode leaves selectable under the root of the type
PrimitivesOf(t, mode) ==
    {n \in DescendantsOf(pb_graph_head(t)) :
        /\ IsPrimitive(n)
        /\ LET top == IF NodeParent[n] = pb_graph_head(t) THEN n
                      ELSE AncestorsOf(n)[Len(AncestorsOf(n)) - 1]
           IN  NodeParentMode[top] = mode}

FreePrimitives(s) == PrimitivesOf(s.type, s.mode) \ s.committed

exists_free_primitive_for_atom_block(s, a) ==
    \E n \in FreePrimitives(s) : primitive_type_feasible(a, n)

\* consecutive slots of a pack pattern sit on primitives joined by the
\* dedicated connection of the pattern
PatternLinked(n1, n2) ==
    \E p \in ConnectableInputPins(n1, NodeDepth[NodeParent[n1]]) : p[1] = n2

\* get_next_primitive_list: the candidate primitive lists still to return
NextPrimitiveLists(s, m) ==
    LET ids == molecule(m).atom_block_ids
        k   == Len(ids)
    IN  {pl \in [1..k -> FreePrimitives(s) \cup {0}] :
            /\ \A i \in 1..k : (pl[i] = 0) = (ids[i] = 0)
            /\ \A i \in 1..k : ids[i] # 0 => primitive_type_feasible(ids[i], pl[i])
            /\ \A i, j \in 1..k : (i # j /\ pl[i] # 0) => pl[i] # pl[j]
            /\ \A i \in 1..(k - 1) : (ids[i] # 0 /\ ids[i + 1] # 0) => PatternLinked(pl[i], pl[i + 1])
            /\ pl \notin s.tried}

reset_cluster_placement_stats(t, mode) ==
    [type |-> t, mode |-> mode, committed |-> {}, tried |-> {}]

(***************************************************************************)
(* Candidate selection.                                                    *)
(***************************************************************************)
NumIntroducedInputs(m, a) ==
    LET ins == block_input_pins(a)
    IN  Cardinality({i \in 1..Len(ins) : net_driver_block(ins[i].net) \notin MoleculeAtoms(m)})

RECURSIVE SumOver(_, _)
SumOver(f, S) == IF S = {} THEN 0
                 ELSE LET x == CHOOSE y \in S : TRUE IN f[x] + SumOver(f, S \ {x})

get_molecule_gain(m, blk_gain) ==
    LET A == MoleculeAtoms(m)
        g == [a \in A |-> IF blk_gain[a] >= 0 THEN blk_gain[a] ELSE 0]
        p == [a \in A |-> IF blk_gain[a] >= 0 THEN 0 ELSE NumIntroducedInputs(m, a)]
    IN  SumOver(g, A) + molecule(m).base_gain * 6 - SumOver(p, A) * 60

\* fault: the "expand" branch puts every molecule at the head of the queue
InsertPos_at_the_head(q, m, gain) == 1

\* fault: the "queue full" branch overwrites the last entry
ReplaceSmallest_overwrites_the_last(q, m, gain) ==
    IF Len(q) = 0 THEN q ELSE [q EXCEPT ![Len(q)] = m]

\* position the insertion of the "expand" branch puts the molecule at:
\* above every entry whose gain is not larger
InsertPos(q, m, gain) ==
    LET below == {j \in 1..Len(q) : get_molecule_gain(q[j], gain) <= get_molecule_gain(m, gain)}
    IN  IF below = {} THEN 1 ELSE (CHOOSE j \in below : \A i \in below : i <= j) + 1

\* the "queue full" branch: drop entry 0 and slide the molecule in
ReplaceSmallest(q, m, gain) ==
    LET n   == Len(q)
        hit == {j \in 1..(n - 1) : get_molecule_gain(m, gain) <= get_molecule_gain(q[j + 1], gain)}
        pos == IF hit = {} THEN n ELSE CHOOSE j \in hit : \A i \in hit : j <= i
    IN  IF n = 0 \/ get_molecule_gain(m, gain) <= get_molecule_gain(q[1], gain) THEN q
        ELSE [j \in 1..n |-> IF j < pos THEN q[j + 1]
                             ELSE IF j = pos THEN m ELSE q[j]]

\* fault: the queue counts as full only when it has max_queue_size entries
add_molecule_to_pb_stats_candidates_full_one_later(st, m, max_queue_size) ==
    IF m \in SeqToSet(st.feasible_blocks) THEN st
    ELSE IF st.num_feasible_blocks >= max_queue_size
    THEN [st EXCEPT !.feasible_blocks = ReplaceSmallest(@, m, st.gain)]
    ELSE [st EXCEPT !.feasible_blocks =
                        SubSeq(@, 1, InsertPos(@, m, st.gain) - 1) \o <<m>>
                        \o SubSeq(@, InsertPos(@, m, st.gain), Len(@)),
                    !.num_feasible_blocks = @ + 1]

\* add_molecule_to_pb_stats_candidates on the stats record of the root pb
add_molecule_to_pb_stats_candidates(st, m, max_queue_size) ==
    IF m \in SeqToSet(st.feasible_blocks) THEN st
    ELSE IF st.num_feasible_blocks >= max_queue_size - 1
    THEN [st EXCEPT !.feasible_blocks = ReplaceSmallest(@, m, st.gain)]
    ELSE [st EXCEPT !.feasible_blocks =
                        SubSeq(@, 1, InsertPos(@, m, st.gain) - 1) \o <<m>>
                        \o SubSeq(@, InsertPos(@, m, st.gain), Len(@)),
                    !.num_feasible_blocks = @ + 1]

\* a valid molecule passes the prefilter when each atom has a free primitive
MoleculeFits(s, m) == \A a \in MoleculeAtoms(m) : exists_free_primitive_for_atom_block(s, a)

RECURSIVE AddCandidates(_, _, _, _, _)
\* (the queue after the head of the list is bound as a value before the rest
\* of the list is scanned, which keeps the evaluation of long lists shallow)
AddCandidates(st, mols, vld, s, max_queue_size) ==
    IF mols = <<>> THEN st
    ELSE CHOOSE out \in
             {AddCandidates(x[1], x[2], vld, s, max_queue_size) :
                  x \in {<<IF vld[Head(mols)] /\ MoleculeFits(s, Head(mols))
                           THEN add_molecule_to_pb_stats_candidates(st, Head(mols),
                                                                    max_queue_size)
                           ELSE st,
                           Tail(mols)>>}} : TRUE

RECURSIVE FlatMap(_, _)
\* the concatenation of f[x] for the x of a sequence
FlatMap(f, xs) == IF xs = <<>> THEN <<>> ELSE f[Head(xs)] \o FlatMap(f, Tail(xs))

MoleculesOfAtoms(blks, lk) ==
    FlatMap([a \in Atoms |-> IF atom_clb(lk, a) = NO_CLUSTER
                             THEN SortedSeq(atom_molecules(a)) ELSE <<>>], blks)

RECURSIVE TransitiveAtomsOfPins(_, _)
\* the unclustered atoms on the pins of a net kept by a finished cluster
TransitiveAtomsOfPins(tpins, lk) ==
    IF tpins = <<>> THEN <<>>
    ELSE (IF atom_clb(lk, Head(tpins)[1]) = NO_CLUSTER THEN <<Head(tpins)[1]>> ELSE <<>>)
         \o TransitiveAtomsOfPins(Tail(tpins), lk)

RECURSIVE TransitiveAtomsOfNets(_, _)
TransitiveAtomsOfNets(tnets, lk) ==
    IF tnets = <<>> THEN <<>>
    ELSE TransitiveAtomsOfPins(net_pins(Head(tnets)), lk) \o TransitiveAtomsOfNets(Tail(tnets), lk)

RECURSIVE TransitiveAtomsOfClusters(_, _, _, _)
\* for every pin of a marked net that sits in another cluster, the
\* unclustered atoms on the nets that cluster exports
TransitiveAtomsOfClusters(pins, lk, nil, c) ==
    IF pins = <<>> THEN <<>>
    ELSE LET tclb == atom_clb(lk, Head(pins)[1])
         IN  (IF tclb # c /\ tclb # NO_CLUSTER THEN TransitiveAtomsOfNets(nil[tclb], lk) ELSE <<>>)
             \o TransitiveAtomsOfClusters(Tail(pins), lk, nil, c)

\* fault: only the marked nets of fewer than AAPACK_MAX_TRANSITIVE_FANOUT_EXPLORE
\* pins are scanned
TransitiveAtoms_skips_nets_of_four_pins(nets, lk, nil, c) ==
    FlatMap([n \in Nets |-> IF Len(net_pins(n)) < AAPACK_MAX_TRANSITIVE_FANOUT_EXPLORE
                            THEN TransitiveAtomsOfClusters(net_pins(n), lk, nil, c)
                            ELSE <<>>], nets)

RECURSIVE TransitiveAtoms(_, _, _, _)
TransitiveAtoms(nets, lk, nil, c) ==
    IF nets = <<>> THEN <<>>
    ELSE (IF Len(net_pins(Head(nets))) < AAPACK_MAX_TRANSITIVE_FANOUT_EXPLORE + 1
          THEN TransitiveAtomsOfClusters(net_pins(Head(nets)), lk, nil, c) ELSE <<>>)
         \o TransitiveAtoms(Tail(nets), lk, nil, c)

RECURSIVE ScoreTransitive(_, _, _)
\* each visit of an atom adds 0.001 to its gain and appends its valid
\* molecules that are not yet in the candidate list
ScoreTransitive(st, blks, vld) ==
    IF blks = <<>> THEN st
    ELSE LET b    == Head(blks)
             old  == st.transitive_fanout_candidates.list
             new  == SelectSeq(SortedSeq(atom_molecules(b)),
                               LAMBDA m : vld[m] /\ m \notin SeqToSet(old))
             st2  == [st EXCEPT !.gain[b] = IF @ < 0 THEN 60 ELSE @ + 60,
                                !.transitive_fanout_candidates.list = old \o new]
         IN  ScoreTransitive(st2, Tail(blks), vld)

load_transitive_fanout_candidates(c, st, lk, vld, nil) ==
    ScoreTransitive(st, TransitiveAtoms(st.marked_nets, lk, nil, c), vld)

\* the VTR_ASSERT of the candidate scans: the atoms of a valid molecule are
\* unclustered, checked slot by slot until one has no free primitive
ScanAssertsHold(mols, lk, vld, s) ==
    \A i \in 1..Len(mols) :
        vld[mols[i]] =>
            \A j \in 1..get_array_size_of_molecule(mols[i]) :
                LET ids == molecule(mols[i]).atom_block_ids
                IN  (/\ ids[j] # 0
                     /\ \A k \in 1..(j - 1) :
                            ids[k] # 0 => exists_free_primitive_for_atom_block(s, ids[k]))
                    => atom_clb(lk, ids[j]) = NO_CLUSTER

\* one scan over candidate molecules: [st, ok]
ScanAndAdd(st, mols, lk, vld, s, max_queue_size, ok) ==
    [st |-> AddCandidates(st, mols, vld, s, max_queue_size),
     ok |-> ok /\ ScanAssertsHold(mols, lk, vld, s)]

\* first source of candidates: the molecules of the marked blocks
AddMarkedCandidates(st, lk, vld, s) ==
    IF st.num_feasible_blocks # NOT_VALID THEN [st |-> st, ok |-> TRUE]
    ELSE ScanAndAdd([st EXCEPT !.num_feasible_blocks = 0,
                               !.feasible_blocks = <<>>,
                               !.explore_transitive_fanout = TRUE],
                    MoleculesOfAtoms(st.marked_blocks, lk), lk, vld, s,
                    AAPACK_MAX_FEASIBLE_BLOCK_ARRAY_SIZE, TRUE)

\* the loaded transitive candidates are offered to the candidate queue
AddLoadedCandidates(st, lk, vld, s, ok) ==
    ScanAndAdd(st, st.transitive_fanout_candidates.list, lk, vld, s,
               IF AAPACK_MAX_FEASIBLE_BLOCK_ARRAY_SIZE <= AAPACK_MAX_TRANSITIVE_EXPLORE
               THEN AAPACK_MAX_FEASIBLE_BLOCK_ARRAY_SIZE ELSE AAPACK_MAX_TRANSITIVE_EXPLORE,
               ok)

\* the molecules the loop over the pins of the stored net offers for one
\* visit of atom b: count grows by one for each
HighFanoutAdds(b, lk, vld, s) ==
    IF atom_clb(lk, b) # NO_CLUSTER THEN 0
    ELSE Cardinality({m \in atom_molecules(b) : vld[m] /\ MoleculeFits(s, m)})

\* the value of count when the loop reaches pin i of the net
HighFanoutCount(pins, i, lk, vld, s) ==
    SumOver([b \in Atoms |-> HighFanoutAdds(b, lk, vld, s)
                              * Cardinality({j \in 1..(i - 1) : pins[j][1] = b})], Atoms)

\* the atoms of the pins the loop visits before count reaches the limit, in
\* the order of their first pin
HighFanoutAtoms(net, lk, vld, s, limit) ==
    LET pins  == net_pins(net)
        seen  == {i \in 1..Len(pins) : HighFanoutCount(pins, i, lk, vld, s) < limit}
        first == {i \in seen : \A j \in 1..(i - 1) : pins[j][1] # pins[i][1]}
        order == SortedSeq(first)
    IN  [k \in 1..Len(order) |-> pins[order[k]][1]]

reset_tried_but_unused_cluster_placements(s) == [s EXCEPT !.tried = {}]

\* the second source is used: the queue is empty and a net is stored
HighFanoutExplored(r) ==
    r.st.num_feasible_blocks = 0 /\ r.st.tie_break_high_fanout_net # 0

\* second source of candidates: the unclustered atoms on the stored net of
\* many sinks; the net is forgotten afterwards; r = [st, ok]
AddHighFanoutCandidates(r, lk, vld, s) ==
    IF ~HighFanoutExplored(r) THEN r
    ELSE LET q == ScanAndAdd(r.st,
                      MoleculesOfAtoms(HighFanoutAtoms(r.st.tie_break_high_fanout_net, lk, vld,
                                                       s, AAPACK_MAX_HIGH_FANOUT_EXPLORE), lk),
                      lk, vld, s,
                      IF AAPACK_MAX_FEASIBLE_BLOCK_ARRAY_SIZE <= AAPACK_MAX_HIGH_FANOUT_EXPLORE
                      THEN AAPACK_MAX_FEASIBLE_BLOCK_ARRAY_SIZE
                      ELSE AAPACK_MAX_HIGH_FANOUT_EXPLORE,
                      r.ok)
         IN  [st |-> [q.st EXCEPT !.tie_break_high_fanout_net = 0], ok |-> q.ok]

\* third source of candidates: the transitive fanout, loaded once and
\* dropped the next time the queue is empty; r = [st, ok]
AddTransitiveCandidates(r, lk, vld, s, nil, c) ==
    IF ~(/\ r.st.num_feasible_blocks = 0
         /\ r.st.tie_break_high_fanout_net = 0
         /\ r.st.explore_transitive_fanout) THEN r
    ELSE IF ~r.st.transitive_fanout_candidates.loaded
    THEN AddLoadedCandidates(
             load_transitive_fanout_candidates(
                 c, [r.st EXCEPT !.transitive_fanout_candidates =
                                     [loaded |-> TRUE, list |-> <<>>]], lk, vld, nil),
             lk, vld, s, r.ok)
    ELSE [st |-> [r.st EXCEPT !.transitive_fanout_candidates =
                                  [loaded |-> FALSE, list |-> <<>>],
                              !.explore_transitive_fanout = FALSE],
          ok |-> r.ok]

\* the end of get_highest_gain_molecule: take the last entry of the queue
PopCandidate(r, vld) ==
    LET n == r.st.num_feasible_blocks
    IN  IF n > 0
        THEN [st |-> [r.st EXCEPT !.num_feasible_blocks = n - 1,
                                  !.feasible_blocks = SubSeq(@, 1, n - 1)],
              molecule |-> r.st.feasible_blocks[n],
              ok |-> r.ok /\ vld[r.st.feasible_blocks[n]]]
        ELSE [st |-> r.st, molecule |-> 0, ok |-> r.ok]

\* get_highest_gain_molecule on the stats of the root pb of cluster c;
\* the result is [st, molecule, ok, s], ok FALSE when a VTR_ASSERT fails and
\* s the cluster placement stats, which the second source resets
get_highest_gain_molecule(st0, lk, vld, s, nil, c) ==
    LET r1 == AddMarkedCandidates(st0, lk, vld, s)
        s2 == IF HighFanoutExplored(r1)
              THEN reset_tried_but_unused_cluster_placements(s) ELSE s
        p  == PopCandidate(AddTransitiveCandidates(AddHighFanoutCandidates(r1, lk, vld, s2),
                                                   lk, vld, s2, nil, c), vld)
    IN  [st |-> p.st, molecule |-> p.molecule, ok |-> p.ok, s |-> s2]

(***************************************************************************)
(* The unclustered list: molecules bucketed by num_ext_inputs.             *)
(***************************************************************************)
max_molecule_inputs == MaxOf({molecule(m).num_ext_inputs : m \in Molecules})
unclustered_list_head_size == max_molecule_inputs + 1

\* every molecule is pushed at the head of its bucket in molecule_array order
unclustered_list_head(ext_inps) ==
    Reverse(SelectSeq(opt.molecule_array, LAMBDA m : molecule(m).num_ext_inputs = ext_inps))

FirstOf(list, ok(_)) ==
    LET hit == {i \in 1..Len(list) : ok(list[i])}
    IN  IF hit = {} THEN 0 ELSE list[CHOOSE i \in hit : \A j \in hit : i <= j]

get_molecule_by_num_ext_inputs(ext_inps, s, vld) ==
    FirstOf(unclustered_list_head(ext_inps), LAMBDA m : vld[m] /\ MoleculeFits(s, m))

RECURSIVE FirstBucket(_, _)
\* scan the buckets from ext_inps down to 0; pick(e) is the molecule of bucket e
FirstBucket(ext_inps, pick) ==
    IF ext_inps < 0 THEN 0
    ELSE IF pick[ext_inps] # 0 THEN pick[ext_inps]
    ELSE FirstBucket(ext_inps - 1, pick)

inputs_avail_without_the_cap(pb) ==
    Cardinality({j \in 1..Len(pb.stats.input_pins_used) : pb.stats.input_pins_used[j] # 0})

\* the bucket the unrelated selector starts at: the number of input pins in
\* use at pb, capped at the last bucket
inputs_avail(pb) ==
    LET used  == pb.stats.input_pins_used
        count == Cardinality({j \in 1..Len(used) : used[j] # 0})
    IN  IF count >= unclustered_list_head_size
        THEN unclustered_list_head_size - 1 ELSE count

get_free_molecule_with_most_ext_inputs_for_cluster(pb, s, vld) ==
    FirstBucket(inputs_avail(pb),
                [e \in 0..inputs_avail(pb) |-> get_molecule_by_num_ext_inputs(e, s, vld)])

get_seed_logical_molecule_with_most_ext_inputs(vld) ==
    FirstBucket(max_molecule_inputs,
                [e \in 0..max_molecule_inputs |->
                    FirstOf(unclustered_list_head(e), LAMBDA m : vld[m])])

\* the unrelated-clustering fallback of get_molecule_for_cluster on the
\* result r of get_highest_gain_molecule
UnrelatedFallback(r, pb, vld, allow_unrelated_clustering, attempts, s) ==
    IF allow_unrelated_clustering /\ r.molecule = 0 /\ attempts = 0
    THEN [st |-> r.st, ok |-> r.ok, attempts |-> 1, s |-> r.s,
          molecule |-> get_free_molecule_with_most_ext_inputs_for_cluster(
                           [pb EXCEPT !.stats = r.st], r.s, vld)]
    ELSE IF allow_unrelated_clustering /\ r.molecule # 0
    THEN [st |-> r.st, ok |-> r.ok, attempts |-> 0, s |-> r.s, molecule |-> r.molecule]
    ELSE [st |-> r.st, ok |-> r.ok, attempts |-> attempts, s |-> r.s,
          molecule |-> r.molecule]

\* get_molecule_for_cluster: [st, molecule, attempts, ok, s]
get_molecule_for_cluster(pb, lk, vld, allow_unrelated_clustering, attempts, s, nil, c) ==
    UnrelatedFallback(get_highest_gain_molecule(pb.stats, lk, vld, s, nil, c),
                      pb, vld, allow_unrelated_clustering, attempts, s)

\* fault: the scan of the criticality array stops at the first clustered atom
get_highest_gain_seed_molecule_stops_early(seedindex, lk, vld) ==
    IF seedindex >= Len(opt.critindexarray)
    THEN [molecule |-> 0, seedindex |-> seedindex, ok |-> TRUE]
    ELSE LET blk  == opt.critindexarray[seedindex + 1]
             mols == SelectSeq(SortedSeq(atom_molecules(blk)), LAMBDA m : vld[m])
             best == FirstOf(mols, LAMBDA m : \A i \in 1..Len(mols) :
                                        molecule(mols[i]).base_gain <= molecule(m).base_gain)
         IN  IF atom_clb(lk, blk) = NO_CLUSTER
             THEN [molecule |-> best, seedindex |-> seedindex + 1, ok |-> best # 0]
             ELSE [molecule |-> 0, seedindex |-> seedindex + 1, ok |-> TRUE]

\* get_highest_gain_seed_molecule(&seedindex, ..., false): [molecule, seedindex, ok]
\* fault: the selector returns the valid molecule of smallest base_gain
get_highest_gain_seed_molecule_takes_smallest(seedindex, lk, vld) ==
    LET open == {i \in (seedindex + 1)..Len(opt.critindexarray) :
                     atom_clb(lk, opt.critindexarray[i]) = NO_CLUSTER}
        first == CHOOSE i \in open : \A j \in open : i <= j
        mols  == {m \in atom_molecules(opt.critindexarray[first]) : vld[m]}
    IN  IF open = {}
        THEN [molecule |-> 0, seedindex |-> Len(opt.critindexarray), ok |-> TRUE]
        ELSE IF mols = {} THEN [molecule |-> 0, seedindex |-> first, ok |-> FALSE]
        ELSE [molecule |-> CHOOSE m \in mols : \A x \in mols :
                               molecule(m).base_gain <= molecule(x).base_gain,
              seedindex |-> first, ok |-> TRUE]

RECURSIVE get_highest_gain_seed_molecule(_, _, _)
get_highest_gain_seed_molecule(seedindex, lk, vld) ==
    IF seedindex >= Len(opt.critindexarray)
    THEN [molecule |-> 0, seedindex |-> seedindex, ok |-> TRUE]
    ELSE LET blk  == opt.critindexarray[seedindex + 1]
             mols == SelectSeq(SortedSeq(atom_molecules(blk)), LAMBDA m : vld[m])
             \* the first molecule of the largest base gain
             best == FirstOf(mols, LAMBDA m : \A i \in 1..Len(mols) :
                                        molecule(mols[i]).base_gain <= molecule(m).base_gain)
         IN  IF atom_clb(lk, blk) = NO_CLUSTER
             THEN [molecule |-> best, seedindex |-> seedindex + 1, ok |-> best # 0]
             ELSE get_highest_gain_seed_molecule(seedindex + 1, lk, vld)

(***************************************************************************)
(* One iteration of the while loop of try_pack_molecule.                   *)
(***************************************************************************)
NoChainPin == [parent_node |-> 0, port |-> "", pin_number |-> 0]

IsRootOfChain(m, i) == molecule(m).forced /\ molecule(m).is_chain /\ i = molecule(m).root

\* what the for loop over the slots keeps of the placement t of slot i
SlotPlaced(t, i) == [w |-> t.w, status |-> t.status, failed_location |-> i]

RECURSIVE PlaceSlots(_, _, _, _, _)
\* the for loop over the slots; r = [w, status, failed_location]
PlaceSlots(r, m, pl, c, i) ==
    IF i > get_array_size_of_molecule(m) \/ r.status # "BLK_PASSED" THEN r
    ELSE PlaceSlots(IF molecule(m).atom_block_ids[i] = 0
                    THEN [r EXCEPT !.failed_location = i]
                    ELSE SlotPlaced(try_place_atom_block_rec(
                                        r.w, pl[i], molecule(m).atom_block_ids[i], c,
                                        IsRootOfChain(m, i),
                                        IF IsRootOfChain(m, i) THEN chain_root_pin
                                        ELSE NoChainPin), i),
                    m, pl, c, i + 1)

RECURSIVE RenameChain(_, _, _)
\* a committed chain gives its root atom's name to every ancestor pb
RenameChain(T, ancs, a) ==
    IF ancs = <<>> THEN T
    ELSE RenameChain([T EXCEPT ![Head(ancs)].name = a], Tail(ancs), a)

RECURSIVE RemoveTargets(_, _, _)
\* remove_atom_from_target for the atoms of slots 1..k
RemoveTargets(rt, atoms, k) ==
    IF k = 0 THEN rt
    ELSE LET rest == RemoveTargets(rt, atoms, k - 1)
         IN  IF atoms[k] = 0 THEN rest ELSE remove_atom_from_target(rest, atoms[k])

RECURSIVE RevertSlots(_, _, _, _)
\* revert_place_atom_block for slots i..k in increasing order
RevertSlots(w, atoms, i, k) ==
    IF i > k THEN w
    ELSE RevertSlots(IF atoms[i] = 0 THEN w ELSE revert_place_atom_block(w, atoms[i]),
                     atoms, i + 1, k)

RECURSIVE CallsOnSlots(_, _, _, _)
\* the calls of one for loop over slots i..k: one call of op for every slot
\* that holds an atom, in increasing order
CallsOnSlots(op, atoms, i, k) ==
    IF i > k THEN <<>>
    ELSE (IF atoms[i] = 0 THEN <<>> ELSE << <<op, atoms[i]>> >>)
         \o CallsOnSlots(op, atoms, i + 1, k)

RECURSIVE CallsLastInFirstOut(_, _)
\* an undo that takes the slots k..1 and for each one removes the target and
\* reverts the atom
CallsLastInFirstOut(atoms, k) ==
    IF k = 0 THEN <<>>
    ELSE (IF atoms[k] = 0 THEN <<>>
          ELSE << <<"remove_atom_from_target", atoms[k]>>,
                  <<"revert_place_atom_block", atoms[k]>> >>)
         \o CallsLastInFirstOut(atoms, k - 1)

\* fault: the undo of a failed pass runs last in, first out
UndoCalls_last_in_first_out(atoms, failed_location) ==
    CallsLastInFirstOut(atoms, failed_location)

\* the calls a failed pass makes to undo slots 1..failed_location: the loop
\* of remove_atom_from_target, then the loop of revert_place_atom_block
UndoCalls(atoms, failed_location) ==
    CallsOnSlots("remove_atom_from_target", atoms, 1, failed_location)
    \o CallsOnSlots("revert_place_atom_block", atoms, 1, failed_location)

\* fault: a commit invalidates the committed molecule alone
InvalidatedBy_only_itself(m) == {m}

\* the molecules invalidated by a commit: every molecule of every atom
InvalidatedBy(m) == UNION {atom_molecules(a) : a \in MoleculeAtoms(m)}

\* the end of a pass of the loop: commit on BLK_PASSED, else take the atoms
\* off the router targets and revert the placed slots
TryPackOutcome(w, s, m, pl, c, status, all_placed, pin_ok, asked, failed_location) ==
    LET ids     == molecule(m).atom_block_ids
        rootatm == ids[molecule(m).root]
        T2      == IF molecule(m).forced /\ molecule(m).is_chain
                   THEN RenameChain(w.pbs[c], AncestorsOf(atom_pb(w.lk, rootatm)[2]), rootatm)
                   ELSE w.pbs[c]
        w2      == [w EXCEPT !.rt = RemoveTargets(@, ids, failed_location),
                             !.rt.fails = IF asked THEN @ + 1 ELSE @]
    IN  [w |-> IF status = "BLK_PASSED"
               THEN [w EXCEPT !.pbs[c] = T2,
                              !.valid = [x \in DOMAIN @ |-> @[x] /\ x \notin InvalidatedBy(m)]]
               ELSE IF status = "ASSERT" THEN w
               ELSE RevertSlots(w2, ids, 1, failed_location),
         s |-> IF status = "BLK_PASSED"
               THEN [s EXCEPT !.committed = @ \cup (SeqToSet(pl) \ {0})] ELSE s,
         status |-> status, all_placed |-> all_placed, pin_ok |-> pin_ok, asked |-> asked,
         failed_location |-> failed_location, primitives_list |-> pl,
         undo |-> IF status \in {"BLK_PASSED", "ASSERT"} THEN <<>>
                  ELSE UndoCalls(ids, failed_location)]

\* every slot is placed and T holds the recomputed lookahead pins: check
\* the pin capacity, then ask the router under the per-atom policy
TryPackCheck(w, T, s, m, pl, c, detailed_routing_stage, routed, failed_location) ==
    LET pin_ok == check_lookahead_pins_used(T, pb_graph_head(s.type))
        asked  == pin_ok /\ detailed_routing_stage = E_DETAILED_ROUTE_FOR_EACH_ATOM
    IN  TryPackOutcome([w EXCEPT !.pbs[c] = T], s, m, pl, c,
                       IF ~pin_ok THEN "BLK_FAILED_FEASIBLE"
                       ELSE IF asked /\ ~routed THEN "BLK_FAILED_ROUTE"
                       ELSE "BLK_PASSED",
                       TRUE, pin_ok, asked, failed_location)

\* after the for loop over the slots; placed = [w, status, failed_location]
TryPackPlaced(placed, s, m, pl, c, detailed_routing_stage, routed) ==
    IF placed.status # "BLK_PASSED"
    THEN TryPackOutcome(placed.w, s, m, pl, c, placed.status, FALSE, FALSE, FALSE,
                        placed.failed_location)
    ELSE TryPackCheck(placed.w,
                      try_update_lookahead_pins_used(
                          reset_lookahead_pins_used(placed.w.pbs[c], pb_graph_head(s.type)),
                          placed.w.lk, c, pb_graph_head(s.type)),
                      s, m, pl, c, detailed_routing_stage, routed, placed.failed_location)

\* the body of the loop for the primitive list pl; routed is the answer the
\* router gives if it is asked.  Result: the new world and placement stats,
\* the status and what happened on the way.
TryPackIteration(w, s, m, pl, c, detailed_routing_stage, routed) ==
    TryPackPlaced(PlaceSlots([w |-> w, status |-> "BLK_PASSED", failed_location |-> 0],
                             m, pl, c, 1),
                  s, m, pl, c, detailed_routing_stage, routed)

(***************************************************************************)
(* External collaborators of the controller.                               *)
(***************************************************************************)
\* alloc_and_load_grid(num_instances_type): how many blocks of every type
\* an nx x ny device holds: four empty corners, one column of ny - 1
\* blocks for each of arith and memory, clbs on the rest but one cell
alloc_and_load_grid(nx, ny) ==
    [t \in BlockTypes |-> CASE t = 0 -> 4
                            [] t = 1 -> nx * ny - 2 * (ny - 1) - 1
                            [] OTHER -> ny - 1]

\* live counts the router_data handles that were allocated and not freed
alloc_and_load_router_data(rt) == [rt EXCEPT !.live = @ + 1, !.targets = {}, !.modes = {}]
free_router_data(rt) == [rt EXCEPT !.live = @ - 1, !.targets = {}, !.modes = {}]

EmptyTree == [n \in Nodes |-> EmptyPb]

\* orders std::sort / qsort may leave: any permutation sorted on the key
SortedPermutations(S, key(_), descending) ==
    {p \in [1..Cardinality(S) -> S] :
        /\ \A i, j \in 1..Cardinality(S) : i # j => p[i] # p[j]
        /\ \A i \in 1..(Cardinality(S) - 1) :
               IF descending THEN key(p[i]) >= key(p[i + 1]) ELSE key(p[i]) <= key(p[i + 1])}

(***************************************************************************)
(* Initial state: do_clustering has set every molecule valid, sorted the   *)
(* seed array and built the unclustered list; no cluster exists.           *)
(***************************************************************************)
\* read_place has not been called
NoPlaceFile == [lines |-> <<>>, lineno |-> 0, seen_netlist_id |-> FALSE,
                seen_grid_dimensions |-> FALSE, block_locs |-> <<>>, warnings |-> 0]

\* what the last pass of the loop of try_pack_molecule did
NoLast == [status |-> "BLK_STATUS_UNDEFINED", all_placed |-> FALSE, pin_ok |-> FALSE,
           asked |-> FALSE, failed_location |-> 0, primitives_list |-> <<>>,
           undo |-> <<>>]

NoEntry == [lk |-> <<>>, valid |-> <<>>, pb |-> <<>>, committed |-> {}, targets |-> {}]

\* the aspect ratios 1/den a netlist is packed with
AspectDens(scn) == IF scn = 1 THEN {1, 2} ELSE {1}

NoFrame == [molecule |-> 0, ret |-> "", clb_index |-> 0, status |-> "BLK_STATUS_UNDEFINED",
            route_calls |-> 0, route_rejects |-> 0, iterations |-> 0,
            entry |-> NoEntry, last |-> NoLast]

Init ==
    /\ \E scn \in 1..Len(Netlists) :
       \E unrelated \in BOOLEAN :
       \E seed \in {"VPACK_TIMING", "VPACK_MAX_INPUTS"} :
       \E den \in AspectDens(scn) :
       \E crit \in SortedPermutations(Atoms, LAMBDA a : Netlists[scn].crit[a], TRUE) :
       \E arr \in SortedPermutations(1..Len(Netlists[scn].molecules),
                                     LAMBDA m : Netlists[scn].molecules[m].base_gain, FALSE) :
           opt = [scn |-> scn, netlist |-> Netlists[scn],
                  allow_unrelated_clustering |-> unrelated,
                  cluster_seed_type |-> seed, aspect_den |-> den,
                  critindexarray |-> crit, molecule_array |-> arr]
    /\ lookup = [atom_clb |-> [a \in Atoms |-> NO_CLUSTER],
                 atom_pb  |-> [a \in Atoms |-> NoPb],
                 pb_atom  |-> [c \in ClbIndexes |-> [n \in Nodes |-> 0]]]
    /\ valid = [m \in 1..Len(opt.netlist.molecules) |-> TRUE]
    /\ clb = [c \in ClbIndexes |-> [name |-> 0, type |-> 0, pb |-> FALSE]]
    /\ pbs = [c \in ClbIndexes |-> EmptyTree]
    /\ ctl = [num_clb |-> 0, seedindex |-> 0, savedseedindex |-> 0,
              detailed_routing_stage |-> E_DETAILED_ROUTE_AT_END_ONLY,
              is_cluster_legal |-> FALSE, istart |-> 0, next_molecule |-> 0,
              prev_molecule |-> 0, block_pack_status |-> "BLK_STATUS_UNDEFINED",
              num_unrelated_clustering_attempts |-> 0, discards |-> 0]
    /\ dev = [nx |-> 1, ny |-> 1,
              num_used_instances_type |-> [t \in BlockTypes |-> 0],
              num_instances_type |-> [t \in BlockTypes |-> 0]]
    /\ cps = reset_cluster_placement_stats(0, 0)
    /\ router = [live |-> 0, targets |-> {}, modes |-> {}, fails |-> 0,
                 intra_lb_routing |-> <<>>]
    /\ nets_in_lb = [c \in ClbIndexes |-> <<>>]
    /\ snc = [i |-> 0, j |-> 0, count |-> 0, success |-> FALSE]
    /\ tp = NoFrame
    /\ pc = "seed"
    /\ err = ""
    /\ rp = NoPlaceFile

World == [pbs |-> pbs, lk |-> lookup, valid |-> valid, rt |-> router]

\* the seed selector do_clustering calls for the configured seed type
NextSeed(seedindex, lk, vld) ==
    IF opt.cluster_seed_type = "VPACK_TIMING"
    THEN get_highest_gain_seed_molecule(seedindex, lk, vld)
    ELSE [molecule |-> get_seed_logical_molecule_with_most_ext_inputs(vld),
          seedindex |-> seedindex, ok |-> TRUE]

Fatal(e) == pc' = "fatal" /\ err' = e

(***************************************************************************)
(* do_clustering: first seed and the two loop heads.                       *)
(***************************************************************************)
SelectFirstSeed ==
    /\ pc = "seed"
    /\ LET r == NextSeed(ctl.seedindex, lookup, valid)
       IN  /\ ctl' = [ctl EXCEPT !.istart = r.molecule, !.seedindex = r.seedindex]
           /\ IF r.ok THEN pc' = "loop_top" /\ err' = err ELSE Fatal("assert")
    /\ UNCHANGED <<rp, opt, lookup, valid, clb, pbs, dev, cps, router, nets_in_lb, snc, tp>>

\* fault: the loop over the seeds is not left when no seed is left
LoopTop_waits_for_a_seed ==
    /\ pc = "loop_top" /\ ctl.istart # 0
    /\ pc' = "stage_top"
    /\ ctl' = [ctl EXCEPT !.is_cluster_legal = FALSE,
                          !.savedseedindex = ctl.seedindex,
                          !.detailed_routing_stage = E_DETAILED_ROUTE_AT_END_ONLY]
    /\ UNCHANGED <<rp, opt, lookup, valid, clb, pbs, dev, cps, router, nets_in_lb, snc, tp, err>>

\* while (istart != NULL) { is_cluster_legal = false; savedseedindex = ...
LoopTop ==
    /\ pc = "loop_top"
    /\ IF ctl.istart = 0
       THEN pc' = "check" /\ ctl' = ctl
       ELSE /\ pc' = "stage_top"
            /\ ctl' = [ctl EXCEPT !.is_cluster_legal = FALSE,
                                  !.savedseedindex = ctl.seedindex,
                                  !.detailed_routing_stage = E_DETAILED_ROUTE_AT_END_ONLY]
    /\ UNCHANGED <<rp, opt, lookup, valid, clb, pbs, dev, cps, router, nets_in_lb, snc, tp, err>>

\* the test of the for loop over the routing stages, then the entry of
\* start_new_cluster: name the cluster and size the device
StageTop ==
    /\ pc = "stage_top"
    /\ IF ctl.is_cluster_legal \/ ctl.detailed_routing_stage = E_DETAILED_ROUTE_END
       THEN pc' = "loop_top" /\ UNCHANGED <<clb, dev, snc, err>>
       ELSE IF clb[ctl.num_clb].name # 0
       THEN Fatal("assert") /\ UNCHANGED <<clb, dev, snc>>
       ELSE /\ pc' = "snc_type" /\ err' = err
            /\ clb' = [clb EXCEPT ![ctl.num_clb] =
                          [name |-> molecule(ctl.istart).atom_block_ids[molecule(ctl.istart).root],
                           type |-> 0, pb |-> FALSE]]
            /\ dev' = IF dev.nx > 1 /\ dev.ny > 1
                      THEN [dev EXCEPT !.num_instances_type = alloc_and_load_grid(dev.nx, dev.ny)]
                      ELSE dev
            /\ snc' = [i |-> 0, j |-> 0, count |-> 0, success |-> FALSE]
    /\ UNCHANGED <<rp, opt, lookup, valid, pbs, ctl, cps, router, nets_in_lb, tp>>

(***************************************************************************)
(* start_new_cluster.                                                      *)
(***************************************************************************)
\* for (i = 0; i < num_block_types; i++): skip a type without a free
\* instance and the empty type, else build the root pb and the router data
SncType ==
    /\ pc = "snc_type"
    /\ LET i == snc.i
           c == ctl.num_clb
       IN  IF i >= num_block_types
           THEN pc' = "snc_after" /\ UNCHANGED <<clb, pbs, router, snc>>
           ELSE IF ~(dev.num_used_instances_type[i] < dev.num_instances_type[i])
           THEN pc' = pc /\ snc' = [snc EXCEPT !.i = i + 1] /\ UNCHANGED <<clb, pbs, router>>
           ELSE IF i = EMPTY_TYPE
           THEN /\ pc' = pc /\ snc' = [snc EXCEPT !.i = i + 1]
                /\ clb' = [clb EXCEPT ![c].type = i]
                /\ UNCHANGED <<pbs, router>>
           ELSE /\ pc' = "snc_mode"
                /\ snc' = [snc EXCEPT !.j = 0]
                /\ clb' = [clb EXCEPT ![c].type = i, ![c].pb = TRUE]
                /\ pbs' = [pbs EXCEPT ![c] = [EmptyTree EXCEPT ![pb_graph_head(i)] =
                                                 alloc_and_load_pb_stats(EmptyPb, pb_graph_head(i))]]
                /\ router' = alloc_and_load_router_data(router)
    /\ UNCHANGED <<rp, opt, lookup, valid, ctl, dev, cps, nets_in_lb, tp, err>>

\* the frame of a try_pack_molecule call; entry records the state the call
\* starts from
Frame(m, ret, c, P, s) ==
    [molecule |-> m, ret |-> ret, clb_index |-> c, status |-> "BLK_STATUS_UNDEFINED",
     route_calls |-> 0, route_rejects |-> 0, iterations |-> 0,
     entry |-> [lk |-> lookup, valid |-> valid, pb |-> P[c],
                committed |-> s.committed, targets |-> router.targets],
     last |-> NoLast]

\* for (j = 0; j < num_modes && !success; j++): set the mode, reset the
\* placement stats and call try_pack_molecule on the seed
SncMode ==
    /\ pc = "snc_mode"
    /\ LET i    == snc.i
           c    == ctl.num_clb
           root == pb_graph_head(i)
       IN  IF snc.j < NodeNumModes[root] /\ ~snc.success
           THEN /\ pbs' = [pbs EXCEPT ![c][root].mode = snc.j]
                /\ cps' = reset_cluster_placement_stats(i, snc.j)
                /\ tp' = Frame(ctl.istart, "snc", c, pbs', cps')
                /\ pc' = "tp_loop"
                /\ UNCHANGED <<lookup, router, snc, clb>>
           ELSE IF snc.success
           THEN /\ pc' = "snc_after"
                /\ UNCHANGED <<lookup, pbs, cps, router, snc, tp, clb>>
           ELSE \* free_router_data, free_pb, delete pb; count++
                /\ LET w == free_pb(World, c, root)
                   IN  /\ lookup' = w.lk
                       /\ pbs' = [w.pbs EXCEPT ![c] = EmptyTree]
                /\ clb' = [clb EXCEPT ![c].pb = FALSE]
                /\ router' = free_router_data(router)
                /\ snc' = [snc EXCEPT !.count = @ + 1, !.i = @ + 1]
                /\ pc' = "snc_type"
                /\ UNCHANGED <<cps, tp>>
    /\ UNCHANGED <<rp, opt, valid, ctl, dev, nets_in_lb, err>>

\* success = (BLK_PASSED == try_pack_molecule(...))
SncRet ==
    /\ pc = "snc_ret"
    /\ snc' = [snc EXCEPT !.success = (tp.status = "BLK_PASSED"), !.j = @ + 1]
    /\ pc' = "snc_mode"
    /\ UNCHANGED <<rp, opt, lookup, valid, clb, pbs, ctl, dev, cps, router, nets_in_lb, tp, err>>

\* nint(ny * aspect) and nint(nx / aspect) for aspect = 1 / aspect_den
GrownDevice(d) ==
    IF opt.aspect_den = 1
    THEN [d EXCEPT !.ny = d.ny + 1, !.nx = d.ny + 1]
    ELSE [d EXCEPT !.nx = d.nx + 1, !.ny = (d.nx + 1) * opt.aspect_den]

\* fault: the count of the failed types is never looked at
SncAfter_grows_always ==
    /\ pc = "snc_after"
    /\ IF ~snc.success
       THEN LET g == GrownDevice(dev)
            IN  IF g.nx > MaxGridDim \/ g.ny > MaxGridDim
                THEN /\ Fatal("PackError: exceeds packer range")
                     /\ dev' = g /\ snc' = snc
                ELSE /\ dev' = [g EXCEPT !.num_instances_type = alloc_and_load_grid(g.nx, g.ny)]
                     /\ snc' = [snc EXCEPT !.i = 0, !.count = 0]
                     /\ pc' = "snc_type" /\ err' = err
       ELSE /\ dev' = [dev EXCEPT !.num_used_instances_type[clb[ctl.num_clb].type] = @ + 1]
            /\ pc' = "ucs_seed" /\ err' = err /\ snc' = snc
    /\ UNCHANGED <<rp, opt, lookup, valid, clb, pbs, ctl, cps, router, nets_in_lb, tp>>

\* after the loop over the types: the error of "no type can hold the
\* molecule", the growth of the device, or the end of the function
SncAfter ==
    /\ pc = "snc_after"
    /\ IF snc.count = num_block_types - 1
       THEN Fatal("PackError: can not find any logic block") /\ UNCHANGED <<dev, snc>>
       ELSE IF ~snc.success
       THEN LET g == GrownDevice(dev)
            IN  IF g.nx > MaxGridDim \/ g.ny > MaxGridDim
                THEN /\ Fatal("PackError: exceeds packer range")
                     /\ dev' = g /\ snc' = snc
                ELSE /\ dev' = [g EXCEPT !.num_instances_type = alloc_and_load_grid(g.nx, g.ny)]
                     /\ snc' = [snc EXCEPT !.i = 0, !.count = 0]
                     /\ pc' = "snc_type" /\ err' = err
       ELSE /\ dev' = [dev EXCEPT !.num_used_instances_type[clb[ctl.num_clb].type] = @ + 1]
            /\ pc' = "ucs_seed" /\ err' = err /\ snc' = snc
    /\ UNCHANGED <<rp, opt, lookup, valid, clb, pbs, ctl, cps, router, nets_in_lb, tp>>

(***************************************************************************)
(* try_pack_molecule.                                                      *)
(***************************************************************************)
\* the router may answer "unroutable" MaxRouteFails times in a run
RouterAnswers == IF router.fails < MaxRouteFails THEN BOOLEAN ELSE {TRUE}

ReturnTo(ret) == IF ret = "snc" THEN "snc_ret" ELSE "grow_ret"

\* the state after a pass r of the loop; the loop is left on BLK_PASSED
EndOfPass(r) ==
    /\ lookup' = r.w.lk /\ valid' = r.w.valid /\ pbs' = r.w.pbs
    /\ router' = r.w.rt /\ cps' = r.s
    /\ tp' = [tp EXCEPT !.status = r.status,
                        !.route_calls = IF r.asked THEN @ + 1 ELSE @,
                        !.route_rejects = IF r.status = "BLK_FAILED_ROUTE" THEN @ + 1 ELSE @,
                        !.iterations = @ + 1,
                        !.last = [status |-> r.status, all_placed |-> r.all_placed,
                                  pin_ok |-> r.pin_ok, asked |-> r.asked,
                                  failed_location |-> r.failed_location,
                                  primitives_list |-> r.primitives_list,
                                  undo |-> r.undo]]
    /\ IF r.status = "ASSERT" THEN Fatal("assert")
       ELSE /\ err' = err
            /\ pc' = IF r.status = "BLK_PASSED" THEN ReturnTo(tp.ret) ELSE pc

\* one pass of while (block_pack_status != BLK_PASSED): take the next
\* primitive list, place, check the pins, route, then commit or revert;
\* leave the loop on BLK_PASSED or when no list is left
TryPackStep ==
    /\ pc = "tp_loop"
    /\ IF NextPrimitiveLists(cps, tp.molecule) = {}
       THEN /\ tp' = [tp EXCEPT !.status = "BLK_FAILED_FEASIBLE"]
            /\ pc' = ReturnTo(tp.ret) /\ err' = err
            /\ UNCHANGED <<lookup, valid, pbs, cps, router>>
       ELSE \E pl \in NextPrimitiveLists(cps, tp.molecule) : \E routed \in RouterAnswers :
                /\ routed \/ ctl.detailed_routing_stage = E_DETAILED_ROUTE_FOR_EACH_ATOM
                /\ EndOfPass(TryPackIteration(World, [cps EXCEPT !.tried = @ \cup {pl}],
                                              tp.molecule, pl, tp.clb_index,
                                              ctl.detailed_routing_stage, routed))
                /\ routed \/ tp'.last.asked
    /\ UNCHANGED <<rp, opt, clb, ctl, dev, nets_in_lb, snc>>

(***************************************************************************)
(* do_clustering: growing, closing and checking the clusters.              *)
(***************************************************************************)
\* the stats u of update_cluster_stats with the candidate g chosen on them
WithCandidate(u, g, c, root) ==
    [pbs |-> [u.pbs EXCEPT ![c][root].stats = g.st], lk |-> u.lk,
     molecule |-> g.molecule, attempts |-> g.attempts, commit_ok |-> u.ok, ok |-> g.ok,
     s |-> g.s]

\* fault: the attempt counter is not set back after a molecule that passed
CandidateAfter_keeps_the_counter(u, c, root) ==
    WithCandidate(u, get_molecule_for_cluster(u.pbs[c][root], u.lk, valid,
                         opt.allow_unrelated_clustering,
                         ctl.num_unrelated_clustering_attempts, cps, nets_in_lb, c),
                  c, root)

\* get_molecule_for_cluster on the updated stats u = [pbs, lk, ok]
CandidateAfter(u, c, root) ==
    WithCandidate(u, get_molecule_for_cluster(u.pbs[c][root], u.lk, valid,
                         opt.allow_unrelated_clustering, 0, cps, nets_in_lb, c),
                  c, root)

\* update_cluster_stats for molecule m, then get_molecule_for_cluster
StatsAndNextCandidate(m, c) ==
    CandidateAfter(update_cluster_stats(pbs, lookup, m, c), c, pb_graph_head(clb[c].type))

\* the cluster state and the next candidate r = [pbs, lk, molecule, attempts,
\* commit_ok, ok, s] become the state; prev_molecule is the molecule just handled
TakeCandidate(r, prev) ==
    /\ pbs' = r.pbs /\ lookup' = r.lk /\ cps' = r.s
    /\ ctl' = [ctl EXCEPT !.num_clb = IF pc = "ucs_seed" THEN @ + 1 ELSE @,
                          !.block_pack_status = IF pc = "ucs_seed" THEN @ ELSE tp.status,
                          !.num_unrelated_clustering_attempts = r.attempts,
                          !.next_molecule = r.molecule,
                          !.prev_molecule = prev]
    /\ IF ~r.commit_ok THEN Fatal("assert: commit_lookahead_pins_used")
       ELSE IF ~r.ok THEN Fatal("assert")
       ELSE pc' = "grow" /\ err' = err

\* after start_new_cluster: update_cluster_stats(istart), num_clb++, first
\* candidate, prev_molecule = istart
UpdateSeedStats ==
    /\ pc = "ucs_seed"
    /\ TakeCandidate(StatsAndNextCandidate(ctl.istart, ctl.num_clb), ctl.istart)
    /\ UNCHANGED <<rp, opt, valid, clb, dev, router, nets_in_lb, snc, tp>>

\* while (next_molecule != NULL && prev_molecule != next_molecule): call
\* try_pack_molecule on the candidate
Grow ==
    /\ pc = "grow"
    /\ IF ctl.next_molecule # 0 /\ ctl.prev_molecule # ctl.next_molecule
       THEN /\ tp' = Frame(ctl.next_molecule, "grow", ctl.num_clb - 1, pbs, cps)
            /\ pc' = "tp_loop"
       ELSE /\ tp' = tp
            /\ pc' = "end_route"
    /\ UNCHANGED <<rp, opt, lookup, valid, clb, pbs, ctl, dev, cps, router, nets_in_lb, snc, err>>

\* the candidate g chosen without a stats update, on the current state
KeepStats(g, c, root) ==
    [pbs |-> [pbs EXCEPT ![c][root].stats = g.st], lk |-> lookup,
     molecule |-> g.molecule, attempts |-> g.attempts, commit_ok |-> TRUE, ok |-> g.ok,
     s |-> g.s]

\* the return of try_pack_molecule in the grow loop: on failure ask for the
\* next candidate, on success update the stats first
GrowRet ==
    /\ pc = "grow_ret"
    /\ IF tp.status # "BLK_PASSED"
       THEN TakeCandidate(
                KeepStats(get_molecule_for_cluster(
                              pbs[ctl.num_clb - 1][pb_graph_head(clb[ctl.num_clb - 1].type)],
                              lookup, valid, opt.allow_unrelated_clustering,
                              ctl.num_unrelated_clustering_attempts, cps, nets_in_lb,
                              ctl.num_clb - 1),
                          ctl.num_clb - 1, pb_graph_head(clb[ctl.num_clb - 1].type)),
                ctl.next_molecule)
       ELSE TakeCandidate(StatsAndNextCandidate(ctl.next_molecule, ctl.num_clb - 1),
                          ctl.next_molecule)
    /\ UNCHANGED <<rp, opt, valid, clb, dev, router, nets_in_lb, snc, tp>>

\* fault: the router is asked about the whole cluster in every stage
EndRoute_asks_in_every_stage ==
    /\ pc = "end_route"
    /\ \E routed \in RouterAnswers :
           /\ ctl' = [ctl EXCEPT !.is_cluster_legal = routed]
           /\ router' = [router EXCEPT !.fails = IF routed THEN @ ELSE @ + 1]
    /\ pc' = "end_branch"
    /\ UNCHANGED <<rp, opt, lookup, valid, clb, pbs, dev, cps, nets_in_lb, snc, tp, err>>

\* the route of the whole cluster: asked of the router in the first stage,
\* taken for granted in the per-atom stage
EndRoute ==
    /\ pc = "end_route"
    /\ IF ctl.detailed_routing_stage = E_DETAILED_ROUTE_AT_END_ONLY
       THEN \E routed \in RouterAnswers :
                /\ ctl' = [ctl EXCEPT !.is_cluster_legal = routed]
                /\ router' = [router EXCEPT !.fails = IF routed THEN @ ELSE @ + 1]
       ELSE /\ ctl' = [ctl EXCEPT !.is_cluster_legal = TRUE]
            /\ router' = router
    /\ pc' = "end_branch"
    /\ UNCHANGED <<rp, opt, lookup, valid, clb, pbs, dev, cps, nets_in_lb, snc, tp, err>>

free_pb_stats_recursive(T) == [n \in Nodes |-> free_pb_stats(T[n])]

\* fault: a net with no pin outside the cluster is exported too
ExportedNets_without_pins_outside(st) ==
    SelectSeq(st.marked_nets,
              LAMBDA net : Len(net_pins(net)) - st.num_pins_of_net_in_pb[net]
                               < AAPACK_MAX_TRANSITIVE_FANOUT_EXPLORE)

\* the nets a finished cluster exports: marked nets with 1..3 pins outside
ExportedNets(st) ==
    SelectSeq(st.marked_nets,
              LAMBDA net : LET ext == Len(net_pins(net)) - st.num_pins_of_net_in_pb[net]
                           IN  ext < AAPACK_MAX_TRANSITIVE_FANOUT_EXPLORE /\ ext > 0)

\* the cluster is legal: keep its routing, take the next seed, keep the
\* exported nets, free the stats and the router data
Finalize ==
    /\ pc = "end_branch" /\ ctl.is_cluster_legal
    /\ LET c    == ctl.num_clb - 1
           root == pb_graph_head(clb[c].type)
           seed == NextSeed(ctl.seedindex, lookup, valid)
           kept == Append(router.intra_lb_routing, c)
       IN  /\ router' = free_router_data([router EXCEPT !.intra_lb_routing = kept])
           /\ ctl' = [ctl EXCEPT !.istart = seed.molecule, !.seedindex = seed.seedindex,
                                 !.detailed_routing_stage = @ + 1]
           /\ nets_in_lb' = [nets_in_lb EXCEPT ![c] = @ \o ExportedNets(pbs[c][root].stats)]
           /\ pbs' = [pbs EXCEPT ![c] = free_pb_stats_recursive(@)]
           /\ IF Len(kept) = ctl.num_clb /\ seed.ok
              THEN pc' = "stage_top" /\ err' = err ELSE Fatal("assert")
    /\ UNCHANGED <<rp, opt, lookup, valid, clb, dev, cps, snc, tp>>

\* fault: a discarded cluster keeps its router data
Discard_keeps_router_data ==
    /\ pc = "end_branch" /\ ~ctl.is_cluster_legal
    /\ LET c    == ctl.num_clb - 1
           root == pb_graph_head(clb[c].type)
           w    == free_pb(revalid_molecules(World, c, root), c, root)
       IN  /\ dev' = [dev EXCEPT !.num_used_instances_type[clb[c].type] = @ - 1]
           /\ lookup' = w.lk /\ valid' = w.valid
           /\ pbs' = [w.pbs EXCEPT ![c] = EmptyTree]
           /\ clb' = [clb EXCEPT ![c].name = 0, ![c].pb = FALSE]
           /\ ctl' = [ctl EXCEPT !.num_clb = @ - 1, !.seedindex = ctl.savedseedindex,
                                 !.detailed_routing_stage = @ + 1, !.discards = @ + 1]
    /\ pc' = "stage_top"
    /\ UNCHANGED <<rp, opt, cps, nets_in_lb, snc, tp, err, router>>

\* fault: the discarded cluster keeps its instance of the block type
Discard_keeps_the_instance ==
    /\ pc = "end_branch" /\ ~ctl.is_cluster_legal
    /\ LET c    == ctl.num_clb - 1
           root == pb_graph_head(clb[c].type)
           w    == free_pb(revalid_molecules(World, c, root), c, root)
       IN  /\ dev' = dev
           /\ lookup' = w.lk /\ valid' = w.valid
           /\ pbs' = [w.pbs EXCEPT ![c] = EmptyTree]
           /\ clb' = [clb EXCEPT ![c].name = 0, ![c].pb = FALSE]
           /\ ctl' = [ctl EXCEPT !.num_clb = @ - 1, !.seedindex = ctl.savedseedindex,
                                 !.detailed_routing_stage = @ + 1, !.discards = @ + 1]
           /\ router' = free_router_data(router)
    /\ pc' = "stage_top"
    /\ UNCHANGED <<rp, opt, cps, nets_in_lb, snc, tp, err>>

\* the cluster is not legal: give the instance back, revalidate and free,
\* forget the cluster and restore the seed index
Discard ==
    /\ pc = "end_branch" /\ ~ctl.is_cluster_legal
    /\ LET c    == ctl.num_clb - 1
           root == pb_graph_head(clb[c].type)
           w    == free_pb(revalid_molecules(World, c, root), c, root)
       IN  /\ dev' = [dev EXCEPT !.num_used_instances_type[clb[c].type] = @ - 1]
           /\ lookup' = w.lk /\ valid' = w.valid
           /\ pbs' = [w.pbs EXCEPT ![c] = EmptyTree]
           /\ clb' = [clb EXCEPT ![c].name = 0, ![c].pb = FALSE]
           /\ ctl' = [ctl EXCEPT !.num_clb = @ - 1, !.seedindex = ctl.savedseedindex,
                                 !.detailed_routing_stage = @ + 1, !.discards = @ + 1]
           /\ router' = free_router_data(router)
    /\ pc' = "stage_top"
    /\ UNCHANGED <<rp, opt, cps, nets_in_lb, snc, tp, err>>

(***************************************************************************)
(* check_clustering.                                                       *)
(***************************************************************************)
RECURSIVE CheckedPbs(_, _)
\* the pbs check_cluster_atom_blocks visits from pb n: named children only
CheckedPbs(T, n) ==
    IF IsPrimitive(n) THEN {n}
    ELSE {n} \cup UNION {CheckedPbs(T, x) : x \in {y \in ChildPbs(T, n) : T[y].name # 0}}

\* the primitive pbs visited over the clusters 0..num_clb-1 that hold an atom
CheckedPrimitives(P, lk, num_clb) ==
    {pb \in ClbIndexes \X Nodes :
        /\ pb[1] < num_clb
        /\ pb[2] \in CheckedPbs(P[pb[1]], pb_graph_head(clb[pb[1]].type))
        /\ IsPrimitive(pb[2])
        /\ pb_atom(lk, pb) # 0}

\* the first error check_clustering raises, "" if it raises none
check_clustering(P, lk, num_clb) ==
    LET apb(a) == atom_pb(lk, a)
        prims  == CheckedPrimitives(P, lk, num_clb)
        containers == {pb \in ClbIndexes \X Nodes :
                          /\ pb[1] < num_clb
                          /\ pb[2] \in CheckedPbs(P[pb[1]], pb_graph_head(clb[pb[1]].type))
                          /\ ~IsPrimitive(pb[2])}
    IN  IF \E a \in Atoms : apb(a) = NoPb
        THEN "PackError: atom is not mapped to a pb"
        ELSE IF \E a \in Atoms : pb_atom(lk, apb(a)) # a
        THEN "PackError: pb does not contain atom"
        ELSE IF \E a \in Atoms : P[apb(a)[1]][apb(a)[2]].name # a
        THEN "assert"
        ELSE IF \E a \in Atoms : \E x \in SeqToSet(AncestorsOf(apb(a)[2])) :
                    P[apb(a)[1]][x].name = 0
        THEN "assert"
        ELSE IF \E a \in Atoms : atom_clb(lk, a) = NO_CLUSTER
        THEN "PackError: atom is not mapped to a CLB"
        ELSE IF \E a \in Atoms :
                    \/ ~clb[atom_clb(lk, a)].pb
                    \/ <<apb(a)[1], RootOf(apb(a)[2])>>
                           # <<atom_clb(lk, a), pb_graph_head(clb[atom_clb(lk, a)].type)>>
        THEN "PackError: CLB does not match CLB contained by pb"
        ELSE IF \E p, q \in prims : p # q /\ pb_atom(lk, p) = pb_atom(lk, q)
        THEN "PackError: atom is already contained in another pb"
        ELSE IF \E p \in prims : atom_pb(lk, pb_atom(lk, p)) # p
        THEN "PackError: atom does not link to pb"
        ELSE IF \E pb \in containers :
                    \A y \in ChildPbs(P[pb[1]], pb[2]) : P[pb[1]][y].name = 0
        THEN "assert"
        ELSE IF \E a \in Atoms : a \notin {pb_atom(lk, p) : p \in prims}
        THEN "PackError: atom not found in any cluster"
        ELSE ""

CheckClustering ==
    /\ pc = "check"
    /\ err' = check_clustering(pbs, lookup, ctl.num_clb)
    /\ pc' = IF err' = "" THEN "done" ELSE "fatal"
    /\ UNCHANGED <<rp, opt, lookup, valid, clb, pbs, ctl, dev, cps, router, nets_in_lb, snc, tp>>

Next ==
    \/ SelectFirstSeed
    \/ LoopTop
    \/ StageTop
    \/ SncType
    \/ SncMode
    \/ SncRet
    \/ SncAfter
    \/ TryPackStep
    \/ UpdateSeedStats
    \/ Grow
    \/ GrowRet
    \/ EndRoute
    \/ Finalize
    \/ Discard
    \/ CheckClustering

Spec == Init /\ [][Next]_vars

(***************************************************************************)
(* Properties.  A state is between two calls of try_pack_molecule when the *)
(* control is neither inside the loop of the function nor stopped by a     *)
(* fatal error.                                                            *)
(***************************************************************************)
BetweenCalls == pc \notin {"tp_loop", "fatal"}

Returned == pc \in {"snc_ret", "grow_ret"}

\* C1: when the clustering loop ends without a fatal error, check_clustering
\* raises no error: every atom is in a cluster, exactly one primitive pb over
\* all clusters holds it, and the parents of its pb end at the root pb of
\* its cluster.
C1_LoopEndPassesCheck ==
    pc = "check" =>
        /\ check_clustering(pbs, lookup, ctl.num_clb) = ""
        /\ \A a \in Atoms :
               /\ atom_clb(lookup, a) # NO_CLUSTER
               /\ atom_clb(lookup, a) < ctl.num_clb
               /\ Cardinality({pb \in ClbIndexes \X Nodes :
                                   IsPrimitive(pb[2]) /\ pbs[pb[1]][pb[2]].name = a}) = 1
               /\ atom_pb(lookup, a)[1] = atom_clb(lookup, a)
               /\ pbs[atom_pb(lookup, a)[1]][atom_pb(lookup, a)[2]].name = a
               /\ RootOf(atom_pb(lookup, a)[2])
                      = pb_graph_head(clb[atom_clb(lookup, a)].type)

\* the loop has ended on a run that built two clusters and discarded one
C1_Witness == pc = "check" /\ ctl.num_clb >= 2 /\ ctl.discards >= 1

\* C2: between two calls of try_pack_molecule an atom has a pb exactly when
\* it has a cluster, its pb maps back to it, and no two atoms share a pb.
C2_LookupConsistent ==
    BetweenCalls =>
        /\ \A a \in Atoms :
               /\ (atom_pb(lookup, a) # NoPb) <=> (atom_clb(lookup, a) # NO_CLUSTER)
               /\ atom_pb(lookup, a) # NoPb => pb_atom(lookup, atom_pb(lookup, a)) = a
        /\ \A a, b \in Atoms :
               (a # b /\ atom_pb(lookup, a) # NoPb) => atom_pb(lookup, a) # atom_pb(lookup, b)

\* a call failed in the grow loop of a cluster that holds atoms, after a
\* cluster was discarded
C2_Witness ==
    /\ pc = "grow_ret" /\ tp.status # "BLK_PASSED" /\ tp.iterations >= 1
    /\ ctl.discards >= 1
    /\ \E a \in Atoms : atom_pb(lookup, a) # NoPb

\* C3: between two calls of try_pack_molecule a molecule is valid exactly
\* when none of its atoms is in a cluster.
C3_ValidIffUnclustered ==
    BetweenCalls =>
        \A m \in Molecules :
            valid[m] <=> \A a \in MoleculeAtoms(m) : atom_clb(lookup, a) = NO_CLUSTER

\* the first cluster was discarded after candidates were tried on it: every
\* molecule is valid again
C3_Witness ==
    /\ pc = "stage_top" /\ ctl.discards >= 1 /\ ctl.num_clb = 0
    /\ ctl.prev_molecule # ctl.istart
    /\ \A m \in Molecules : valid[m]

\* a pb without its speculative lookahead pin sets
WithoutLookahead(pb) ==
    [pb EXCEPT !.stats.lookahead_input_pins_used = <<>>,
               !.stats.lookahead_output_pins_used = <<>>]

\* a pb without its lookahead pin sets, its name and its child table
WithoutLookaheadAndChildren(pb) ==
    [WithoutLookahead(pb) EXCEPT !.name = 0, !.child_pbs = FALSE, !.child_mode = 0]

\* C4 (as stated): a call of try_pack_molecule that does not return PASSED
\* leaves the atom maps, the valid flags, the whole pb tree of the cluster
\* with every pb-stats map, the committed set of the placement stats and the
\* router targets exactly as they were when the call began.
C4_FailedCallRestoresEverything ==
    (Returned /\ tp.status # "BLK_PASSED") =>
        /\ lookup = tp.entry.lk
        /\ valid = tp.entry.valid
        /\ pbs[tp.clb_index] = tp.entry.pb
        /\ cps.committed = tp.entry.committed
        /\ router.targets = tp.entry.targets

\* what such a call does restore: the atom maps, the valid flags, the
\* committed set, the router targets and the pb tree, except that the root
\* pb keeps the name and the child table the rejected placement gave it and
\* the lookahead pin sets keep the recomputed values
FailedCallRestoresCommittedState ==
    (Returned /\ tp.status # "BLK_PASSED") =>
        /\ lookup = tp.entry.lk
        /\ valid = tp.entry.valid
        /\ cps.committed = tp.entry.committed
        /\ router.targets = tp.entry.targets
        /\ \A n \in Nodes :
               IF n = pb_graph_head(cps.type)
               THEN /\ WithoutLookaheadAndChildren(pbs[tp.clb_index][n])
                           = WithoutLookaheadAndChildren(tp.entry.pb[n])
                    /\ pbs[tp.clb_index][n].mode = tp.entry.pb[n].mode
               ELSE WithoutLookahead(pbs[tp.clb_index][n]) = WithoutLookahead(tp.entry.pb[n])

\* no VTR_ASSERT fails.  Violated: the child table a failed seed call leaves
\* on the root pb has the shape of the mode of that call, and the call of
\* start_new_cluster for the next mode of the type finds another pb-graph
\* node in it than the one it places on
NoAssertionFails == err # "assert"

\* C5 (as stated): under the per-atom routing policy, once the router has
\* rejected a placement whose slots were all placed and whose pin check
\* passed, try_pack_molecule has called the router once and returns
\* FAILED_ROUTE.
C5_RouterRejectionReturnsFailedRoute ==
    (Returned /\ tp.route_rejects >= 1) =>
        /\ tp.status = "BLK_FAILED_ROUTE"
        /\ tp.route_calls = 1

\* C6: try_pack_molecule returns PASSED only with lookahead pin sets that are
\* the ones recomputed over the whole cluster and that fit the capacity of
\* every pin class of every named non-primitive pb; no assertion of
\* commit_lookahead_pins_used fails and the committed pins of a class never
\* exceed its capacity.
C6_PassedRespectsPinCapacity ==
    /\ (Returned /\ tp.status = "BLK_PASSED") =>
           LET T    == pbs[tp.clb_index]
               root == pb_graph_head(cps.type)
           IN  /\ T = try_update_lookahead_pins_used(reset_lookahead_pins_used(T, root),
                                                     lookup, tp.clb_index, root)
               /\ \A x \in NamedPbs(T, root) :
                      (~IsPrimitive(x) /\ T[x].name # 0) =>
                          /\ Len(T[x].stats.lookahead_input_pins_used)
                                 <= input_pin_class_size[x]
                          /\ Len(T[x].stats.lookahead_output_pins_used)
                                 <= output_pin_class_size[x]
    /\ err # "assert: commit_lookahead_pins_used"
    /\ \A c \in ClbIndexes : \A x \in Nodes :
           /\ Cardinality({i \in DOMAIN pbs[c][x].stats.input_pins_used :
                               pbs[c][x].stats.input_pins_used[i] # 0})
                  <= input_pin_class_size[x]
           /\ Cardinality({i \in DOMAIN pbs[c][x].stats.output_pins_used :
                               pbs[c][x].stats.output_pins_used[i] # 0})
                  <= output_pin_class_size[x]

\* a molecule joined a cluster whose root output class is then full
C6_Witness ==
    /\ pc = "grow_ret" /\ tp.status = "BLK_PASSED"
    /\ LET root == pb_graph_head(cps.type)
       IN  Len(pbs[tp.clb_index][root].stats.lookahead_output_pins_used)
               = output_pin_class_size[root]

\* the root atom of a molecule
RootAtom(m) == molecule(m).atom_block_ids[molecule(m).root]

\* a chain molecule whose root atom has a net on the pin chain_root_pin names
ChainRooted(m) ==
    /\ molecule(m).forced /\ molecule(m).is_chain
    /\ port_net(RootAtom(m), chain_root_pin.port, chain_root_pin.pin_number) # 0

\* a pass of the loop of try_pack_molecule has run in the current call
PassDone == pc \in {"tp_loop", "snc_ret", "grow_ret"} /\ tp.last.primitives_list # <<>>

\* C7: a chain molecule whose root atom has a net on the chain root pin is
\* committed only with its root atom on the parent node of chain_root_pin; a
\* pass that puts the root atom on another node ends FAILED_FEASIBLE.
C7_ChainRootOnChainRootNode ==
    /\ (Returned /\ tp.status = "BLK_PASSED" /\ ChainRooted(tp.molecule)) =>
           atom_pb(lookup, RootAtom(tp.molecule))[2] = chain_root_pin.parent_node
    /\ (PassDone /\ ChainRooted(tp.molecule)
        /\ tp.last.primitives_list[molecule(tp.molecule).root] # chain_root_pin.parent_node) =>
           tp.last.status = "BLK_FAILED_FEASIBLE"
    /\ BetweenCalls =>
           \A m \in Molecules :
               (/\ ChainRooted(m) /\ atom_molecules(RootAtom(m)) = {m}
                /\ atom_clb(lookup, RootAtom(m)) # NO_CLUSTER) =>
                   atom_pb(lookup, RootAtom(m))[2] = chain_root_pin.parent_node

\* a rooted chain molecule was committed on the chain root node after a pass
\* on another node had been rejected
C7_Witness ==
    /\ Returned /\ tp.status = "BLK_PASSED" /\ ChainRooted(tp.molecule)
    /\ tp.iterations >= 2

\* the two atoms carry the same net on every pin of every non-data port
SameNonDataNets(a, b) ==
    \A i \in 1..Len(ModelPorts(NL.model[a])) :
        LET p == ModelPorts(NL.model[a])[i]
        IN  ~IsDataPort(NL.model[a], p.port) =>
                \A bit \in 0..(p.size - 1) : port_net(a, p.port, bit) = port_net(b, p.port, bit)

\* the atoms on the memory-class siblings of node n in cluster c
MemorySiblingAtoms(c, n) ==
    {pb_atom(lookup, <<c, y>>) :
        y \in {z \in Nodes : /\ z # n /\ NodeMemoryClass[z]
                             /\ NodeParent[z] = NodeParent[n]
                             /\ NodeParentMode[z] = NodeParentMode[n]}} \ {0}

\* C8: two atoms on memory-slice siblings of one parent carry the same nets
\* on all pins of their non-data ports; a pass that puts an atom beside a
\* sibling that differs on such a pin ends FAILED_FEASIBLE.
C8_MemorySiblingsShareNets ==
    /\ \A c \in ClbIndexes : \A n \in Nodes :
           (NodeMemoryClass[n] /\ pb_atom(lookup, <<c, n>>) # 0) =>
               \A b \in MemorySiblingAtoms(c, n) : SameNonDataNets(pb_atom(lookup, <<c, n>>), b)
    /\ (PassDone /\ Len(tp.last.primitives_list) = 1
        /\ NodeMemoryClass[tp.last.primitives_list[1]]
        /\ \E b \in MemorySiblingAtoms(tp.clb_index, tp.last.primitives_list[1]) :
               ~SameNonDataNets(RootAtom(tp.molecule), b)) =>
           tp.last.status = "BLK_FAILED_FEASIBLE"

\* two memory atoms were committed as siblings of one cluster
C8_Witness ==
    /\ pc = "grow_ret" /\ tp.status = "BLK_PASSED"
    /\ NodeMemoryClass[tp.last.primitives_list[1]]
    /\ MemorySiblingAtoms(tp.clb_index, tp.last.primitives_list[1]) # {}

\* the step that follows a failed end-of-cluster route discards the cluster
DiscardStep ==
    (pc = "end_branch" /\ ~ctl.is_cluster_legal) =>
        LET c == ctl.num_clb - 1
        IN  /\ \A a \in Atoms :
                   atom_clb(lookup, a) = c =>
                       atom_clb(lookup', a) = NO_CLUSTER /\ atom_pb(lookup', a) = NoPb
            /\ \A m \in Molecules :
                   (\A a \in MoleculeAtoms(m) : atom_clb(lookup', a) = NO_CLUSTER) => valid'[m]
            /\ ctl'.num_clb = c
            /\ dev'.num_used_instances_type[clb[c].type]
                   = dev.num_used_instances_type[clb[c].type] - 1
            /\ router'.intra_lb_routing = router.intra_lb_routing
            /\ c \notin SeqToSet(router'.intra_lb_routing)
            /\ ctl'.seedindex = ctl.savedseedindex
            /\ ctl'.istart = ctl.istart
            /\ ctl'.detailed_routing_stage = E_DETAILED_ROUTE_FOR_EACH_ATOM
            /\ pc' = "stage_top"

\* in the per-atom stage the seed reopens the cluster of the same index, the
\* router is asked in every pass that placed the molecule within the pin
\* limits, and the end of the cluster is legal without a route
ReopenSteps ==
    ctl.detailed_routing_stage = E_DETAILED_ROUTE_FOR_EACH_ATOM =>
        /\ (pc = "stage_top" /\ ~ctl.is_cluster_legal) =>
               /\ pc' = "snc_type" /\ ctl' = ctl
               /\ clb'[ctl.num_clb].name = RootAtom(ctl.istart)
        /\ pc = "snc_after" => ctl' = ctl
        /\ (pc = "snc_after" /\ pc' = "ucs_seed") =>
               atom_clb(lookup, RootAtom(ctl.istart)) = ctl.num_clb
        /\ (pc = "tp_loop" /\ tp'.iterations > tp.iterations
            /\ tp'.last.all_placed /\ tp'.last.pin_ok) => tp'.last.asked
        /\ pc = "end_route" =>
               ctl'.is_cluster_legal /\ router' = router /\ pc' = "end_branch"
        /\ pc = "end_branch" =>
               /\ ctl.is_cluster_legal
               /\ router'.intra_lb_routing = Append(router.intra_lb_routing, ctl.num_clb - 1)

ValidMoleculesOf(a) == {m \in atom_molecules(a) : valid[m]}

C12_SeedChoiceFixedBySortKeys ==
    [][(/\ opt.cluster_seed_type = "VPACK_TIMING"
        /\ ctl'.seedindex > ctl.seedindex /\ ctl'.istart # 0) =>
           \A b \in Atoms \ {opt.critindexarray[ctl'.seedindex]} :
               atom_clb(lookup, b) = NO_CLUSTER =>
                   NL.crit[b] # NL.crit[opt.critindexarray[ctl'.seedindex]]]_vars

\* do_clustering has returned or stopped on a fatal error
Terminated == pc \in {"done", "fatal"}

\* the steps of do_clustering around the loop over the seeds
OuterSteps == SelectFirstSeed \/ LoopTop \/ CheckClustering

\* the steps inside the loop over the seeds, and the positions of the
\* control where they are taken
ClusterSteps ==
    \/ StageTop \/ SncType \/ SncMode \/ SncRet \/ SncAfter \/ TryPackStep
    \/ UpdateSeedStats \/ Grow \/ GrowRet \/ EndRoute \/ Finalize \/ Discard
AtClusterStep == pc \notin {"seed", "loop_top", "check", "done", "fatal"}

\* the program is sequential and takes its next step as long as it has one.
\* The last conjunct is WF_vars(ClusterSteps) with ENABLED written out: each
\* of these steps is possible exactly when the control is at it, and it
\* moves the control or counts a pass.
FairSpec ==
    /\ Spec
    /\ WF_vars(OuterSteps)
    /\ ([]<>(~AtClusterStep) \/ []<><<ClusterSteps>>_vars)

\* C13: do_clustering terminates: every loop of try_pack_molecule, every
\* grow loop and the loop over the seeds end, so that every run reaches the
\* return of do_clustering (or a fatal error of start_new_cluster).
C13_DoClusteringTerminates == <>Terminated

\* C13: each seed opens at most two clusters, one per routing stage: a seed
\* whose cluster was discarded is not discarded again.
C13_SeedOpensAtMostTwoClusters ==
    [][(pc = "end_branch" /\ ~ctl.is_cluster_legal) =>
           ctl.detailed_routing_stage = E_DETAILED_ROUTE_AT_END_ONLY]_vars

\* do_clustering returned after a seed had opened two clusters and a grow
\* loop had run out of candidates
C13_Witness ==
    /\ pc = "done" /\ ctl.discards >= 1 /\ ctl.num_clb >= 2
    /\ \E a, b \in Atoms : a # b /\ atom_clb(lookup, a) = atom_clb(lookup, b)

\* the positions of the control between the allocation of a router_data
\* handle in start_new_cluster and its release
HoldsHandle ==
    pc \in {"snc_mode", "snc_ret", "tp_loop", "ucs_seed", "grow", "grow_ret",
            "end_route", "end_branch"}

\* C14: on every path without a fatal error each router_data handle is
\* freed exactly once and at most one is live: the number of live handles
\* is 1 from alloc_and_load_router_data to free_router_data and 0 elsewhere,
\* so every call of the router (in try_pack_molecule and at the end of the
\* cluster) has a live handle.
C14_RouterDataFreedExactlyOnce ==
    pc # "fatal" =>
        /\ router.live \in {0, 1}
        /\ pc # "snc_after" => (router.live = 1 <=> HoldsHandle)
        /\ pc = "snc_after" => (router.live = 1 <=> snc.success)

\* a handle was freed when its cluster was discarded, another when a type
\* was rejected, and do_clustering returned
C14_Witness ==
    /\ pc = "done" /\ ctl.discards >= 1 /\ router.live = 0
    /\ \E c \in DOMAIN clb : clb[c].type > 2

\* the atoms of molecule m in the order of its slots
PlacedOrder(m) == SelectSeq(molecule(m).atom_block_ids, LAMBDA a : a # 0)

\* the last pass of the loop of try_pack_molecule failed after every atom
\* of a molecule of two atoms had been placed
FailedAfterPlacing ==
    /\ tp.last.status \in {"BLK_FAILED_FEASIBLE", "BLK_FAILED_ROUTE"}
    /\ tp.last.all_placed
    /\ Len(PlacedOrder(tp.molecule)) >= 2

\* C15 (as stated): a failed pass undoes the placed atoms last in, first
\* out, and for each atom the removal from the router targets is followed
\* at once by its revert.
C15_UndoLastInFirstOut ==
    FailedAfterPlacing =>
        LET a == PlacedOrder(tp.molecule)
            n == Len(a)
        IN  tp.last.undo =
                [i \in 1..(2 * n) |->
                    IF i % 2 = 1 THEN <<"remove_atom_from_target", a[n - (i - 1) \div 2]>>
                    ELSE <<"revert_place_atom_block", a[n - (i - 1) \div 2]>>]

\* C15: a failed pass undoes the placed atoms in the order of placement, in
\* two loops: first every atom is removed from the router targets, then every
\* atom is reverted.
C15_UndoInPlacementOrderInTwoLoops ==
    FailedAfterPlacing =>
        LET a == PlacedOrder(tp.molecule)
            n == Len(a)
        IN  tp.last.undo =
                [i \in 1..(2 * n) |->
                    IF i <= n THEN <<"remove_atom_from_target", a[i]>>
                    ELSE <<"revert_place_atom_block", a[i - n]>>]

\* a pass placed both atoms of a molecule and failed
C15_Witness == FailedAfterPlacing /\ Len(tp.last.undo) = 4

(***************************************************************************)
(* The candidate queue on its own: the pb_stats of one root pb under any   *)
(* sequence of add_molecule_to_pb_stats_candidates calls and pops, for a    *)
(* gain map that does not change.  tp records the last call.                *)
(***************************************************************************)
\* the gains of the atoms: absent from the map (-1), 0 or one tie-break unit
QueueGains == {-1, 0, 6}

QueueStats == pbs[0][1].stats

QueueInit ==
    /\ \E scn \in {1, 3} : \E g \in [Atoms -> QueueGains] :
           /\ opt = [scn |-> scn, netlist |-> Netlists[scn],
                     allow_unrelated_clustering |-> FALSE,
                     cluster_seed_type |-> "VPACK_TIMING", aspect_den |-> 1,
                     critindexarray |-> <<>>, molecule_array |-> <<>>]
           /\ pbs = [c \in ClbIndexes |->
                        [EmptyTree EXCEPT ![1].stats.num_feasible_blocks = 0,
                                          ![1].stats.gain = g]]
    /\ lookup = [atom_clb |-> [a \in Atoms |-> NO_CLUSTER],
                 atom_pb  |-> [a \in Atoms |-> NoPb],
                 pb_atom  |-> [c \in ClbIndexes |-> [n \in Nodes |-> 0]]]
    /\ valid = [m \in 1..Len(opt.netlist.molecules) |-> TRUE]
    /\ clb = [c \in ClbIndexes |-> [name |-> 0, type |-> 0, pb |-> FALSE]]
    /\ ctl = [num_clb |-> 0]
    /\ dev = [nx |-> 1, ny |-> 1]
    /\ cps = reset_cluster_placement_stats(0, 0)
    /\ router = [live |-> 0, targets |-> {}, modes |-> {}, fails |-> 0,
                 intra_lb_routing |-> <<>>]
    /\ nets_in_lb = [c \in ClbIndexes |-> <<>>]
    /\ snc = [i |-> 0, j |-> 0, count |-> 0, success |-> FALSE]
    /\ tp = [op |-> "", molecule |-> 0, before |-> QueueStats]
    /\ pc = "queue"
    /\ err = ""
    /\ rp = NoPlaceFile

\* add_molecule_to_pb_stats_candidates(molecule, gain, pb, MaxQueueSize)
QueueAdd ==
    /\ pc = "queue"
    /\ \E m \in Molecules :
           /\ pbs' = [pbs EXCEPT ![0][1].stats =
                          add_molecule_to_pb_stats_candidates(@, m, MaxQueueSize)]
           /\ tp' = [op |-> "add", molecule |-> m, before |-> QueueStats]
    /\ UNCHANGED <<rp, opt, lookup, valid, clb, ctl, dev, cps, router, nets_in_lb, snc, pc, err>>

\* the end of get_highest_gain_molecule
QueuePop ==
    /\ pc = "queue"
    /\ LET r == PopCandidate([st |-> QueueStats, ok |-> TRUE], valid)
       IN  /\ pbs' = [pbs EXCEPT ![0][1].stats = r.st]
           /\ tp' = [op |-> "pop", molecule |-> r.molecule, before |-> QueueStats]
    /\ UNCHANGED <<rp, opt, lookup, valid, clb, ctl, dev, cps, router, nets_in_lb, snc, pc, err>>

QueueNext == QueueAdd \/ QueuePop

QueueSpec == QueueInit /\ [][QueueNext]_vars

\* the gain of molecule m under the gain map of the queue
QueueGain(m) == get_molecule_gain(m, QueueStats.gain)

\* C16: after any sequence of add_molecule_to_pb_stats_candidates calls the
\* first num_feasible_blocks entries of feasible_blocks are pairwise distinct
\* and in ascending order of gain, and get_highest_gain_molecule pops the
\* entry of the highest index, a molecule of maximal gain in the queue.
C16_QueueDistinctAscendingPopsMax ==
    LET q == QueueStats.feasible_blocks
        n == QueueStats.num_feasible_blocks
    IN  /\ n = Len(q)
        /\ \A i, j \in 1..n : i < j => q[i] # q[j] /\ QueueGain(q[i]) <= QueueGain(q[j])
        /\ (tp.op = "pop" /\ tp.before.num_feasible_blocks > 0) =>
               /\ tp.molecule = tp.before.feasible_blocks[tp.before.num_feasible_blocks]
               /\ \A i \in 1..tp.before.num_feasible_blocks :
                      QueueGain(tp.before.feasible_blocks[i]) <= QueueGain(tp.molecule)
               /\ n = tp.before.num_feasible_blocks - 1

\* a molecule was popped from a queue of three molecules, two of equal gain
C16_Witness ==
    /\ tp.op = "pop" /\ tp.before.num_feasible_blocks = 3
    /\ \E i, j \in 1..3 : i < j /\ QueueGain(tp.before.feasible_blocks[i])
                                     = QueueGain(tp.before.feasible_blocks[j])

\* the last call offered a new molecule to a queue at its cap
AddAtCap ==
    /\ tp.op = "add"
    /\ tp.before.num_feasible_blocks >= MaxQueueSize - 1
    /\ \A i \in 1..tp.before.num_feasible_blocks : tp.before.feasible_blocks[i] # tp.molecule

\* C17: when the queue is at its cap, a molecule whose gain is not larger
\* than the lowest gain in the queue leaves the queue unchanged; a molecule of
\* strictly larger gain takes the place of exactly the entry of lowest gain
\* (entry 0) and num_feasible_blocks stays the same.
C17_AddAtCapEvictsLowestOrNothing ==
    AddAtCap =>
        IF QueueGain(tp.molecule) <= QueueGain(tp.before.feasible_blocks[1])
        THEN QueueStats = tp.before
        ELSE /\ QueueStats.num_feasible_blocks = tp.before.num_feasible_blocks
             /\ SeqToSet(QueueStats.feasible_blocks) =
                    (SeqToSet(tp.before.feasible_blocks) \ {tp.before.feasible_blocks[1]})
                    \cup {tp.molecule}
             /\ QueueStats = [tp.before EXCEPT !.feasible_blocks = QueueStats.feasible_blocks]

\* a molecule of larger gain evicted the lowest entry of a queue at its cap
C17_Witness ==
    /\ AddAtCap
    /\ QueueGain(tp.molecule) > QueueGain(tp.before.feasible_blocks[1])
    /\ tp.before.feasible_blocks[1] \notin SeqToSet(QueueStats.feasible_blocks)

\* a molecule of no larger gain was offered to a queue at its cap
C17_WitnessRejected ==
    /\ AddAtCap
    /\ QueueGain(tp.molecule) <= QueueGain(tp.before.feasible_blocks[1])

(***************************************************************************)
(* The gain engine on a net of many sinks: the packer opens the first      *)
(* cluster of a netlist whose seed LUT drives a net of k sinks and commits *)
(* the seed (update_cluster_stats).                                        *)
(***************************************************************************)
\* l1 drives net 1 into k - 1 pins of l2 and one pin of l3; l4 drives net 2
\* into l1
FanoutNetlist(k) ==
    [model |-> <<"lut", "lut", "lut", "lut">>,
     pins  |-> << <<Pin("in", 0, "in", 2), Pin("out", 0, "out", 1)>>,
                  [i \in 1..(k - 1) |-> Pin("in", i - 1, "in", 1)],
                  <<Pin("in", 0, "in", 1)>>,
                  <<Pin("out", 0, "out", 2)>> >>,
     num_nets |-> 2,
     molecules |-> << Mol(<<1>>, FALSE, FALSE, 1, 4, 1), Mol(<<2>>, FALSE, FALSE, 1, 3, 1),
                      Mol(<<3>>, FALSE, FALSE, 1, 2, 1), Mol(<<4>>, FALSE, FALSE, 1, 1, 0) >>,
     crit |-> <<3, 2, 1, 0>>]

\* the numbers of sinks of net 1: small, and around AAPACK_MAX_NET_SINKS_IGNORE
FanoutSinks ==
    {2, 3} \cup ((AAPACK_MAX_NET_SINKS_IGNORE - 1)..(AAPACK_MAX_NET_SINKS_IGNORE + 2))

GainInit ==
    /\ \E k \in FanoutSinks :
       \E unrelated \in BOOLEAN :
       \E seed \in {"VPACK_TIMING", "VPACK_MAX_INPUTS"} :
           opt = [scn |-> 4, netlist |-> FanoutNetlist(k),
                  allow_unrelated_clustering |-> unrelated,
                  cluster_seed_type |-> seed, aspect_den |-> 1,
                  critindexarray |-> <<1, 2, 3, 4>>, molecule_array |-> <<4, 3, 2, 1>>]
    /\ lookup = [atom_clb |-> [a \in Atoms |-> NO_CLUSTER],
                 atom_pb  |-> [a \in Atoms |-> NoPb],
                 pb_atom  |-> [c \in ClbIndexes |-> [n \in Nodes |-> 0]]]
    /\ valid = [m \in 1..Len(opt.netlist.molecules) |-> TRUE]
    /\ clb = [c \in ClbIndexes |-> [name |-> 0, type |-> 0, pb |-> FALSE]]
    /\ pbs = [c \in ClbIndexes |-> EmptyTree]
    /\ ctl = [num_clb |-> 0, seedindex |-> 0, savedseedindex |-> 0,
              detailed_routing_stage |-> E_DETAILED_ROUTE_AT_END_ONLY,
              is_cluster_legal |-> FALSE, istart |-> 0, next_molecule |-> 0,
              prev_molecule |-> 0, block_pack_status |-> "BLK_STATUS_UNDEFINED",
              num_unrelated_clustering_attempts |-> 0, discards |-> 0]
    /\ dev = [nx |-> 1, ny |-> 1,
              num_used_instances_type |-> [t \in BlockTypes |-> 0],
              num_instances_type |-> [t \in BlockTypes |-> 0]]
    /\ cps = reset_cluster_placement_stats(0, 0)
    /\ router = [live |-> 0, targets |-> {}, modes |-> {}, fails |-> 0,
                 intra_lb_routing |-> <<>>]
    /\ nets_in_lb = [c \in ClbIndexes |-> <<>>]
    /\ snc = [i |-> 0, j |-> 0, count |-> 0, success |-> FALSE]
    /\ tp = NoFrame
    /\ pc = "seed"
    /\ err = ""
    /\ rp = NoPlaceFile

\* do_clustering up to the commit of the first seed
GainNext ==
    \/ SelectFirstSeed
    \/ LoopTop
    \/ StageTop
    \/ SncType
    \/ SncMode
    \/ SncRet
    \/ SncAfter
    \/ TryPackStep
    \/ UpdateSeedStats

GainSpec == GainInit /\ [][GainNext]_vars

\* the seed l1 is committed to cluster 0
SeedCommitted == pc = "grow" /\ atom_clb(lookup, 1) = 0

\* net 1 has left a trace in the gain statistics of pb n of cluster 0
Walked(n) ==
    LET st == pbs[0][n].stats
    IN  \/ 1 \in SeqToSet(st.marked_nets)
        \/ st.num_pins_of_net_in_pb[1] # 0
        \/ \E b \in {2, 3} : \/ b \in SeqToSet(st.marked_blocks)
                             \/ st.sharinggain[b] # 0
                             \/ st.gain[b] # -1

\* net 1 is recorded in full in the gain statistics of pb n of cluster 0
WalkedInFull(n) ==
    LET st == pbs[0][n].stats
    IN  /\ 1 \in SeqToSet(st.marked_nets)
        /\ st.num_pins_of_net_in_pb[1] = 1
        /\ \A b \in {2, 3} : /\ b \in SeqToSet(st.marked_blocks)
                             /\ st.sharinggain[b] = Len(AtomPinsOn(b, 1, {"in"}))
                             /\ st.gain[b] >= 0

\* C18: on commit a net of at most AAPACK_MAX_NET_SINKS_IGNORE (256) sinks is
\* walked for gain in every pb above the committed atom; a net of 257 sinks
\* or more is not walked: no pb has it in marked_nets or
\* num_pins_of_net_in_pb, and its atoms get no mark and no gain from it.
C18_NetWalkedIffAtMost256Sinks ==
    SeedCommitted =>
        LET up == SeqToSet(AncestorsOf(atom_pb(lookup, 1)[2]))
        IN  IF Len(net_sinks(1)) <= 256
            THEN \A n \in up : WalkedInFull(n)
            ELSE \A n \in Nodes : ~Walked(n)

\* the seed was committed with 256 sinks on its output net
C18_Witness == SeedCommitted /\ Len(net_sinks(1)) = 256

\* the seed was committed with 257 sinks on its output net
C18_WitnessIgnored == SeedCommitted /\ Len(net_sinks(1)) = 257

\* a step that calls get_highest_gain_seed_molecule: the first seed, or the
\* next seed after a legal cluster
SeedCall ==
    /\ opt.cluster_seed_type = "VPACK_TIMING"
    /\ pc = "seed" \/ (pc = "end_branch" /\ ctl.is_cluster_legal)

\* C19: the timing seed selector moves its cursor forward only (the discard
\* of a cluster alone puts it back); a call skips the atoms that are in a
\* cluster, stops at the first atom that is in none and returns one of the
\* valid molecules of that atom with the largest base_gain, which always
\* exists; it returns nothing only when the cursor has passed the last
\* atom.
C19_SeedSelectorTakesFirstUnclusteredAtom ==
    [][/\ (ctl'.seedindex < ctl.seedindex) => (pc = "end_branch" /\ ~ctl.is_cluster_legal)
       /\ SeedCall =>
            LET old == ctl.seedindex
                new == ctl'.seedindex
                arr == opt.critindexarray
            IN  /\ pc' # "fatal"
                /\ \A i \in (old + 1)..(new - 1) : atom_clb(lookup, arr[i]) # NO_CLUSTER
                /\ IF ctl'.istart # 0
                   THEN /\ new \in (old + 1)..Len(arr)
                        /\ atom_clb(lookup, arr[new]) = NO_CLUSTER
                        /\ ctl'.istart \in ValidMoleculesOf(arr[new])
                        /\ \A m \in ValidMoleculesOf(arr[new]) :
                               molecule(m).base_gain <= molecule(ctl'.istart).base_gain
                   ELSE /\ new = Len(arr)
                        /\ old = new \/ atom_clb(lookup, arr[new]) # NO_CLUSTER]_vars

\* the selector has skipped an atom that is in a cluster and returned a
\* molecule of the next atom
C19_Witness ==
    /\ opt.cluster_seed_type = "VPACK_TIMING"
    /\ pc = "stage_top" /\ ctl.is_cluster_legal /\ ctl.istart # 0
    /\ ctl.seedindex - ctl.savedseedindex >= 2
    /\ atom_clb(lookup, opt.critindexarray[ctl.seedindex - 1]) # NO_CLUSTER

\* the first call chose among two valid molecules of the most critical atom
C19_WitnessSeveral ==
    /\ opt.cluster_seed_type = "VPACK_TIMING"
    /\ pc = "loop_top" /\ ctl.num_clb = 0 /\ ctl.seedindex = 1
    /\ Cardinality(ValidMoleculesOf(opt.critindexarray[1])) >= 2

(***************************************************************************)
(* read_place: the placement file is read line by line.  A line is the     *)
(* sequence of its tokens (vtr::split); the file is drawn line by line     *)
(* from PlaceLines, and rp.lines holds the lines read so far.              *)
(***************************************************************************)
\* the tokens whose first character is '#'
CommentTokens == {"#", "#0", "#1", "#Netlist_File:"}

\* vtr::atoi on the number tokens of the files
Atoi(t) == CASE t = "0" -> 0 [] t = "1" -> 1 [] t = "2" -> 2 [] t = "3" -> 3
               [] t = "9" -> 9

PlaceLines ==
    { <<>>,
      <<"#Netlist_File:", "a.net", "Netlist_ID:", "id1">>,
      <<"Netlist_File:", "a.net", "Netlist_ID:", "id1">>,
      <<"Netlist_File:", "b.net", "Netlist_ID:", "id2">>,
      <<"Array", "size:", "2", "x", "2", "logic", "blocks">>,
      <<"Array", "size:", "3", "x", "3", "logic", "blocks">>,
      <<"Array", "size:", "2", "x", "2">>,
      <<"b1", "1", "1", "0">>,
      <<"b2", "1", "2", "0", "#1">>,
      <<"b1", "9", "1", "0">>,
      <<"zz", "0", "0", "0">> }

\* find_block: the index of the block of that name, 0 for a null pointer
find_block(block_list, name) ==
    IF \E i \in 1..Len(block_list) : block_list[i] = name
    THEN CHOOSE i \in 1..Len(block_list) : block_list[i] = name
    ELSE 0

\* the result of the loop body when it throws at the current line
PlaceError(st, msg) == [st |-> st, err |-> msg]

\* fault: the array-size header is not remembered
read_place_line_forgets_the_grid(st, tokens, in) ==
    LET s1 == [st EXCEPT !.lineno = @ + 1, !.lines = Append(@, tokens)]
    IN  IF Len(tokens) = 7 /\ tokens[1] = "Array" THEN [st |-> s1, err |-> ""]
        ELSE IF Len(tokens) = 4 /\ tokens[1] = "Netlist_File:" /\ s1.seen_netlist_id
        THEN PlaceError(s1, "Duplicate Netlist_File/Netlist_ID specification")
        ELSE IF Len(tokens) = 4 /\ tokens[1] = "Netlist_File:"
        THEN [st |-> [s1 EXCEPT !.seen_netlist_id = TRUE], err |-> ""]
        ELSE IF Len(tokens) \in {4, 5} /\ tokens[1] \notin CommentTokens
        THEN PlaceError(s1, "Missing device grid size specification")
        ELSE [st |-> s1, err |-> ""]

\* the body of the while loop of read_place for one line; in holds the
\* arguments of read_place and the loaded netlist's id
read_place_line(st, tokens, in) ==
    LET s1 == [st EXCEPT !.lineno = @ + 1, !.lines = Append(@, tokens)]
    IN  IF tokens = <<>> THEN [st |-> s1, err |-> ""]
        ELSE IF tokens[1] \in CommentTokens THEN [st |-> s1, err |-> ""]
        ELSE IF Len(tokens) = 4 /\ tokens[1] = "Netlist_File:" /\ tokens[3] = "Netlist_ID:"
        THEN IF s1.seen_netlist_id
             THEN PlaceError(s1, "Duplicate Netlist_File/Netlist_ID specification")
             ELSE IF tokens[4] # in.netlist_id /\ in.verify_file_digests
             THEN PlaceError(s1, "The packed netlist file that generated placement does not match current netlist")
             ELSE [st |-> [s1 EXCEPT !.seen_netlist_id = TRUE,
                                     !.warnings = IF tokens[4] # in.netlist_id
                                                  THEN @ + 1 ELSE @],
                   err |-> ""]
        ELSE IF /\ Len(tokens) = 7 /\ tokens[1] = "Array" /\ tokens[2] = "size:"
                /\ tokens[4] = "x" /\ tokens[6] = "logic" /\ tokens[7] = "blocks"
        THEN IF s1.seen_grid_dimensions
             THEN PlaceError(s1, "Duplicate device grid dimensions specification")
             ELSE IF in.L_nx # Atoi(tokens[3]) \/ in.L_ny # Atoi(tokens[5])
             THEN PlaceError(s1, "Current FPGA size is different from size when placement generated")
             ELSE [st |-> [s1 EXCEPT !.seen_grid_dimensions = TRUE], err |-> ""]
        ELSE IF Len(tokens) = 4 \/ (Len(tokens) = 5 /\ tokens[5] \in CommentTokens)
        THEN IF ~s1.seen_grid_dimensions
             THEN PlaceError(s1, "Missing device grid size specification")
             ELSE IF find_block(in.block_list, tokens[1]) = 0
             THEN PlaceError(s1, "Block in placement file does not exist in netlist")
             ELSE LET locs == IF Len(s1.block_locs) # Len(in.block_list)
                              THEN [i \in 1..Len(in.block_list) |-> <<0, 0, 0>>]
                              ELSE s1.block_locs
                  IN  [st |-> [s1 EXCEPT !.block_locs =
                                   [locs EXCEPT ![find_block(in.block_list, tokens[1])] =
                                        <<Atoi(tokens[2]), Atoi(tokens[3]), Atoi(tokens[4])>>]],
                       err |-> ""]
        ELSE PlaceError(s1, "Invalid line in placement file")

ReadPlaceInit ==
    /\ \E verify \in BOOLEAN :
           opt = [verify_file_digests |-> verify, L_nx |-> 2, L_ny |-> 2,
                  netlist_id |-> "id1", block_list |-> <<"b1", "b2">>]
    /\ rp = NoPlaceFile
    /\ lookup = <<>> /\ valid = <<>> /\ clb = <<>> /\ pbs = <<>> /\ ctl = <<>>
    /\ dev = <<>> /\ cps = <<>> /\ router = <<>> /\ nets_in_lb = <<>> /\ snc = <<>>
    /\ tp = <<>>
    /\ pc = "read_place"
    /\ err = ""

\* while (std::getline(fstream, line)): one line of the file
ReadPlaceLine ==
    /\ pc = "read_place" /\ Len(rp.lines) < MaxLines
    /\ \E line \in PlaceLines :
           LET r == read_place_line(rp, line, opt)
           IN  /\ rp' = r.st
               /\ err' = r.err
               /\ pc' = IF r.err = "" THEN pc ELSE "fatal"
    /\ UNCHANGED <<opt, lookup, valid, clb, pbs, ctl, dev, cps, router, nets_in_lb, snc, tp>>

\* the end of the file: the digest of the file becomes placement_id
ReadPlaceEnd ==
    /\ pc = "read_place"
    /\ pc' = "placed"
    /\ UNCHANGED <<opt, lookup, valid, clb, pbs, ctl, dev, cps, router, nets_in_lb, snc, tp,
                   err, rp>>

ReadPlaceNext == ReadPlaceLine \/ ReadPlaceEnd

ReadPlaceSpec == ReadPlaceInit /\ [][ReadPlaceNext]_vars

\* the shapes of the lines of a placement file
IsNetlistHeader(l) == Len(l) = 4 /\ l[1] = "Netlist_File:" /\ l[3] = "Netlist_ID:"
IsArraySizeHeader(l) ==
    /\ Len(l) = 7 /\ l[1] = "Array" /\ l[2] = "size:" /\ l[4] = "x"
    /\ l[6] = "logic" /\ l[7] = "blocks"
IsBlockRecord(l) ==
    /\ Len(l) \in {4, 5} /\ l[1] \notin CommentTokens /\ ~IsNetlistHeader(l)
    /\ Len(l) = 5 => l[5] \in CommentTokens

\* the line read last, and whether a line of shape Is(_) was read before it
LastLine == rp.lines[Len(rp.lines)]
ReadBefore(Is(_)) == \E i \in 1..(Len(rp.lines) - 1) : Is(rp.lines[i])

\* read_place has thrown at the line read last
RejectedAtLastLine == pc = "fatal" /\ err # "" /\ rp.lineno = Len(rp.lines)

\* C20: a second Netlist_File/Netlist_ID line and a second array-size line
\* are rejected at that line whatever was read between the two, and a block
\* record read before any array-size line is rejected at that line.
C20_DuplicateHeaderRejected ==
    rp.lines # <<>> =>
        /\ (IsNetlistHeader(LastLine) /\ ReadBefore(IsNetlistHeader)) =>
               /\ RejectedAtLastLine
               /\ err = "Duplicate Netlist_File/Netlist_ID specification"
        /\ (IsArraySizeHeader(LastLine) /\ ReadBefore(IsArraySizeHeader)) =>
               /\ RejectedAtLastLine
               /\ err = "Duplicate device grid dimensions specification"
        /\ (IsBlockRecord(LastLine) /\ ~ReadBefore(IsArraySizeHeader)) =>
               /\ RejectedAtLastLine
               /\ err = "Missing device grid size specification"

\* a second array-size line was read after a block record and a comment
\* had been read behind the first
C20_Witness ==
    /\ Len(rp.lines) = 4
    /\ IsArraySizeHeader(rp.lines[1]) /\ IsBlockRecord(rp.lines[2])
    /\ rp.lines[3] # <<>> /\ rp.lines[3][1] \in CommentTokens
    /\ IsArraySizeHeader(rp.lines[4])

\* a second netlist line was read two lines behind the first
C20_WitnessNetlist ==
    /\ Len(rp.lines) >= 3
    /\ IsNetlistHeader(rp.lines[1]) /\ IsNetlistHeader(LastLine)

\* a block record was read before any array-size line
C20_WitnessBlockFirst ==
    /\ rp.lines # <<>> /\ IsBlockRecord(LastLine) /\ ~ReadBefore(IsArraySizeHeader)

(***************************************************************************)
(* read_netlist: the top-level attributes of the packed netlist file are   *)
(* compared with the loaded architecture and atom netlist, then the        *)
(* clustered blocks are read and load_external_nets_and_cb builds the      *)
(* cluster-level nets.  clb holds blist, clb_nlist and the warnings.       *)
(***************************************************************************)
MaxBlocks == 2

OPEN == -1

\* an attribute the top element does not have
NoAttribute == "(none)"

\* the values of architecture_id and atom_netlist_id in a file
ArchitectureIds == {NoAttribute, "arch1", "arch2"}
AtomNetlistIds == {NoAttribute, "atoms1", "atoms2"}

\* fault: the flag is not looked at, a mismatch is a warning
read_netlist_header_only_warns(top, in) ==
    [warnings |-> (IF top.architecture_id \notin {NoAttribute, in.architecture_id}
                   THEN 1 ELSE 0)
                  + (IF top.atom_netlist_id \notin {NoAttribute, in.atom_netlist_id}
                     THEN 1 ELSE 0),
     err |-> ""]

\* the two top-level checks of read_netlist; in holds its arguments and
\* the loaded ids, top the attributes of the file
read_netlist_header(top, in) ==
    LET arch_differs == /\ top.architecture_id # NoAttribute
                        /\ top.architecture_id # in.architecture_id
        atom_differs == /\ top.atom_netlist_id # NoAttribute
                        /\ top.atom_netlist_id # in.atom_netlist_id
    IN  IF arch_differs /\ in.verify_file_digests
        THEN [warnings |-> 0,
              err |-> "Netlist was generated from a different architecture file"]
        ELSE IF atom_differs /\ in.verify_file_digests
        THEN [warnings |-> IF arch_differs THEN 1 ELSE 0,
              err |-> "Netlist was generated from a different atom netlist file"]
        ELSE [warnings |-> (IF arch_differs THEN 1 ELSE 0) + (IF atom_differs THEN 1 ELSE 0),
              err |-> ""]

\* the pins of the two block types: the class of the pin and is_global_pin
BlockTypePins ==
    [io  |-> << [type |-> "RECEIVER", is_global_pin |-> FALSE],
                [type |-> "DRIVER",   is_global_pin |-> FALSE] >>,
     clb |-> << [type |-> "RECEIVER", is_global_pin |-> FALSE],
                [type |-> "DRIVER",   is_global_pin |-> FALSE],
                [type |-> "RECEIVER", is_global_pin |-> TRUE] >>]

NetNames == {"open", "n1", "n2"}

\* the clustered blocks a file can hold: the type and the net of each pin;
\* n2 is a net between pads
FileBlocks ==
    [type : {"io"}, nets : [1..Len(BlockTypePins.io) -> NetNames]]
    \cup [type : {"clb"}, nets : [1..Len(BlockTypePins.clb) -> NetNames \ {"n2"}]]

NoNetlist == [warnings |-> 0, blist |-> <<>>, circuit_clocks |-> {}, net |-> <<>>]

ReadNetlistInit ==
    /\ \E verify \in BOOLEAN : \E arch \in ArchitectureIds : \E atoms \in AtomNetlistIds :
           opt = [verify_file_digests |-> verify,
                  architecture_id |-> "arch1", atom_netlist_id |-> "atoms1",
                  top |-> [architecture_id |-> arch, atom_netlist_id |-> atoms]]
    /\ clb = NoNetlist
    /\ rp = NoPlaceFile
    /\ lookup = <<>> /\ valid = <<>> /\ pbs = <<>> /\ ctl = <<>>
    /\ dev = <<>> /\ cps = <<>> /\ router = <<>> /\ nets_in_lb = <<>> /\ snc = <<>>
    /\ tp = <<>>
    /\ pc = "read_netlist"
    /\ err = ""

\* read_netlist up to the end of the checks of the top-level attributes
ReadNetlistHeader ==
    /\ pc = "read_netlist"
    /\ LET r == read_netlist_header(opt.top, opt)
       IN  /\ clb' = [clb EXCEPT !.warnings = r.warnings]
           /\ err' = r.err
           /\ pc' = IF r.err = "" THEN "load_nets" ELSE "fatal"
    /\ UNCHANGED <<rp, opt, lookup, valid, pbs, ctl, dev, cps, router, nets_in_lb, snc, tp>>

\* the pins <<block, pin>> of the blocks in the order of the loops over the
\* blocks and their pins
RECURSIVE BlockPinsInOrder(_, _)
BlockPinsInOrder(blist, i) ==
    IF i > Len(blist) THEN <<>>
    ELSE [j \in 1..Len(BlockTypePins[blist[i].type]) |-> <<i, j>>]
         \o BlockPinsInOrder(blist, i + 1)

\* add_net_to_hash over all pins: the names in the order of their first
\* use ("open" is a keyword and no net), and the count of a name
ExternalNetNames(blist) ==
    LET all   == BlockPinsInOrder(blist, 1)
        name(k) == blist[all[k][1]].nets[all[k][2]]
        first == {k \in 1..Len(all) : /\ name(k) # "open"
                                      /\ \A h \in 1..(k - 1) : name(h) # name(k)}
        order == SortedSeq(first)
    IN  [n \in 1..Len(order) |-> name(order[n])]

HashCount(blist, nm) ==
    LET all == BlockPinsInOrder(blist, 1)
    IN  Cardinality({k \in 1..Len(all) : blist[all[k][1]].nets[all[k][2]] = nm})

\* block_list[i].nets[j]: the index of the net of a pin, OPEN for none
BlockNet(blist, names, p) ==
    IF blist[p[1]].nets[p[2]] = "open" THEN OPEN
    ELSE (CHOOSE n \in 1..Len(names) : names[n] = blist[p[1]].nets[p[2]]) - 1

NoNetPin == [block |-> OPEN, block_pin |-> OPEN]

\* alloc_and_init_netlist_from_hash: a net per name with a pin per use;
\* pins[1] is the pin of index 0, the driver
alloc_and_init_netlist_from_hash(blist, names) ==
    [n \in 1..Len(names) |->
         [name |-> names[n], is_global |-> FALSE,
          pins |-> [k \in 1..HashCount(blist, names[n]) |-> NoNetPin]]]

num_sinks(net) == IF Len(net.pins) > 0 THEN Len(net.pins) - 1 ELSE 0

\* one pin in the loop that completes the nets: a receiver takes the next
\* sink slot and sets is_global of its net, a driver takes slot 0
LoadNetPin(st, blist, names, p) ==
    LET netnum == BlockNet(blist, names, p)
        n      == netnum + 1
        pin    == BlockTypePins[blist[p[1]].type][p[2]]
    IN  IF st.err # "" \/ netnum = OPEN THEN st
        ELSE IF pin.type = "RECEIVER"
        THEN IF st.count[n] + 1 > num_sinks(st.net[n])
             THEN [st EXCEPT !.err = "net inconsistency, expected terminals"]
             ELSE [st EXCEPT !.count[n] = @ + 1,
                             !.net[n].pins[st.count[n] + 2] =
                                  [block |-> p[1], block_pin |-> p[2]],
                             !.net[n].is_global = pin.is_global_pin]
        ELSE IF st.net[n].pins[1].block # OPEN
        THEN [st EXCEPT !.err = "assert"]
        ELSE [st EXCEPT !.net[n].pins[1] = [block |-> p[1], block_pin |-> p[2]]]

RECURSIVE LoadNetPins(_, _, _, _, _)
LoadNetPins(st, blist, names, all, k) ==
    IF k > Len(all) THEN st
    ELSE LoadNetPins(LoadNetPin(st, blist, names, all[k]), blist, names, all, k + 1)

\* the pin of a net is a global pin of its block
PinIsGlobal(blist, pin) == BlockTypePins[blist[pin.block].type][pin.block_pin].is_global_pin

\* fault: the sinks are not compared with is_global, the sink read last decides
CheckGlobalNets_looks_at_the_last_sink(net, blist, clocks, i) ==
    IF \E n \in 1..Len(net) : net[n].name \in clocks /\ ~net[n].is_global
    THEN "assert" ELSE ""

\* the error check of the nets in their order: the first net with a sink
\* whose is_global_pin differs from is_global, or with a clock name and
\* is_global false, decides
RECURSIVE CheckGlobalNets(_, _, _, _)
CheckGlobalNets(net, blist, clocks, i) ==
    IF i > Len(net) THEN ""
    ELSE IF \E j \in 2..(num_sinks(net[i]) + 1) :
                PinIsGlobal(blist, net[i].pins[j]) # net[i].is_global
    THEN "Netlist attempts to connect net to both global and non-global pins"
    ELSE IF net[i].name \in clocks /\ ~net[i].is_global THEN "assert"
    ELSE CheckGlobalNets(net, blist, clocks, i + 1)

load_external_nets_and_cb(blist, clocks) ==
    LET names == ExternalNetNames(blist)
        st    == LoadNetPins([net |-> alloc_and_init_netlist_from_hash(blist, names),
                              count |-> [n \in 1..Len(names) |-> 0], err |-> ""],
                             blist, names, BlockPinsInOrder(blist, 1), 1)
    IN  IF st.err # "" THEN [net |-> st.net, err |-> st.err]
        ELSE [net |-> st.net, err |-> CheckGlobalNets(st.net, blist, clocks, 1)]

\* the files: up to MaxBlocks clustered blocks, and the names of <clocks>
FileBlockLists == UNION {[1..n -> FileBlocks] : n \in 0..MaxBlocks}
FileClocks == {{}, {"n1"}}

\* the blocks of the file are read and load_external_nets_and_cb runs
LoadExternalNets ==
    /\ pc = "load_nets"
    /\ \E blist \in FileBlockLists : \E clocks \in FileClocks :
           LET r == load_external_nets_and_cb(blist, clocks)
           IN  /\ clb' = [clb EXCEPT !.blist = blist, !.circuit_clocks = clocks,
                                   !.net = r.net]
               /\ err' = r.err
               /\ pc' = IF r.err = "" THEN "netlist_loaded" ELSE "fatal"
    /\ UNCHANGED <<rp, opt, lookup, valid, pbs, ctl, dev, cps, router, nets_in_lb, snc, tp>>

ReadNetlistNext == ReadNetlistHeader \/ LoadExternalNets

ReadNetlistSpec == ReadNetlistInit /\ [][ReadNetlistNext]_vars

\* a packed netlist file or a placement file is read
FileInit == ReadNetlistInit \/ ReadPlaceInit

FileNext == ReadNetlistHeader \/ LoadExternalNets \/ ReadPlaceLine \/ ReadPlaceEnd

FileSpec == FileInit /\ [][FileNext]_vars

\* which of the two readers runs
NetlistRun == "top" \in DOMAIN opt
PlaceRun == "block_list" \in DOMAIN opt

ArchitectureDiffers == opt.top.architecture_id \notin {NoAttribute, opt.architecture_id}
AtomNetlistDiffers == opt.top.atom_netlist_id \notin {NoAttribute, opt.atom_netlist_id}

ProvenanceErrors ==
    {"Netlist was generated from a different architecture file",
     "Netlist was generated from a different atom netlist file",
     "The packed netlist file that generated placement does not match current netlist"}

\* the first Netlist_File/Netlist_ID line of the placement file was read last
FirstNetlistHeaderLast ==
    /\ PlaceRun /\ rp.lines # <<>>
    /\ IsNetlistHeader(LastLine) /\ ~ReadBefore(IsNetlistHeader)

\* the number of lines of the placement file with an id that is not the
\* id of the loaded netlist
MismatchingHeaders ==
    Cardinality({i \in 1..Len(rp.lines) :
                    IsNetlistHeader(rp.lines[i]) /\ rp.lines[i][4] # opt.netlist_id})

\* C21: an architecture id, atom netlist id (packed netlist file) or netlist
\* id (placement file) that differs from the loaded one ends the read with
\* an error when verify_file_digests is set; when it is not set the
\* mismatch is counted as a warning, no provenance error is ever raised and
\* the rest of the file is read; a file without such an id raises neither.
C21_MismatchFatalOnlyIfVerified ==
    /\ (NetlistRun /\ pc # "read_netlist") =>
           IF (ArchitectureDiffers \/ AtomNetlistDiffers) /\ opt.verify_file_digests
           THEN /\ pc = "fatal" /\ clb.blist = <<>>
                /\ err = IF ArchitectureDiffers
                         THEN "Netlist was generated from a different architecture file"
                         ELSE "Netlist was generated from a different atom netlist file"
           ELSE /\ err \notin ProvenanceErrors
                /\ clb.warnings = (IF ArchitectureDiffers THEN 1 ELSE 0)
                                  + (IF AtomNetlistDiffers THEN 1 ELSE 0)
    /\ FirstNetlistHeaderLast =>
           IF LastLine[4] # opt.netlist_id /\ opt.verify_file_digests
           THEN /\ RejectedAtLastLine
                /\ err = "The packed netlist file that generated placement does not match current netlist"
           ELSE /\ pc # "fatal" /\ rp.seen_netlist_id
                /\ rp.warnings = IF LastLine[4] # opt.netlist_id THEN 1 ELSE 0
    /\ PlaceRun =>
           /\ ~opt.verify_file_digests => err \notin ProvenanceErrors
           /\ MismatchingHeaders = 0 => (err \notin ProvenanceErrors /\ rp.warnings = 0)
           /\ rp.warnings <= MismatchingHeaders

\* a placement file with a mismatching id was read without the flag, and a
\* block record behind the id was placed
C21_Witness ==
    /\ PlaceRun /\ ~opt.verify_file_digests /\ pc = "placed"
    /\ rp.warnings = 1 /\ Len(rp.lines) >= 3
    /\ IsBlockRecord(LastLine) /\ rp.block_locs # <<>>

\* a packed netlist file with both ids mismatching was loaded without the flag
C21_WitnessNetlist ==
    /\ NetlistRun /\ ~opt.verify_file_digests /\ pc = "netlist_loaded"
    /\ clb.warnings = 2 /\ clb.net # <<>>

\* the mismatch of the atom netlist id alone ended the read
C21_WitnessFatal ==
    /\ NetlistRun /\ opt.verify_file_digests /\ pc = "fatal"
    /\ ~ArchitectureDiffers /\ AtomNetlistDiffers

\* files without any id were read to their end with the flag set
C21_WitnessNoHeader ==
    /\ opt.verify_file_digests
    /\ \/ NetlistRun /\ pc = "netlist_loaded" /\ clb.net # <<>>
          /\ opt.top = [architecture_id |-> NoAttribute, atom_netlist_id |-> NoAttribute]
       \/ PlaceRun /\ pc = "placed" /\ MismatchingHeaders = 0 /\ rp.block_locs # <<>>
          /\ \A i \in 1..Len(rp.lines) : ~IsNetlistHeader(rp.lines[i])

\* the pins of the file that use the net of that name, by class
UsesOf(nm, type) ==
    {p \in {q \in (1..Len(clb.blist)) \X (1..3) :
                q[2] <= Len(BlockTypePins[clb.blist[q[1]].type])} :
        /\ clb.blist[p[1]].nets[p[2]] = nm
        /\ BlockTypePins[clb.blist[p[1]].type][p[2]].type = type}

IsGlobalPin(p) == BlockTypePins[clb.blist[p[1]].type][p[2]].is_global_pin

FileNets == NetNames \ {"open"}

\* the net has a sink on a global pin and a sink on a pin that is not
MixedSinks(nm) ==
    \E p, q \in UsesOf(nm, "RECEIVER") : IsGlobalPin(p) /\ ~IsGlobalPin(q)

\* every net of the file has one driver
WellDriven ==
    \A nm \in FileNets :
        (UsesOf(nm, "RECEIVER") \cup UsesOf(nm, "DRIVER") # {}) =>
            Cardinality(UsesOf(nm, "DRIVER")) = 1

NetlistRead == NetlistRun /\ pc \in {"netlist_loaded", "fatal"} /\ clb.blist # <<>>

\* C24 as stated: in a netlist that was loaded no net has a global and a
\* non-global pin, the pin of the driver included.
C24_NoNetOnGlobalAndOtherPins ==
    (NetlistRun /\ pc = "netlist_loaded") =>
        \A nm \in FileNets :
            \A p, q \in UsesOf(nm, "RECEIVER") \cup UsesOf(nm, "DRIVER") :
                IsGlobalPin(p) = IsGlobalPin(q)

\* C24 (amended): in a netlist that was loaded the sinks of a net are all
\* on global pins and the net is global, or none is and the net is not;
\* a net with sinks of both kinds ends the read, in whatever order the
\* blocks come, with the error of the mixed net when every net has one
\* driver and no clock is named.  The pin of the driver is not looked at.
C24_SinksAllGlobalOrNone ==
    /\ (NetlistRun /\ pc = "netlist_loaded") =>
           \A n \in 1..Len(clb.net) :
               /\ ~MixedSinks(clb.net[n].name)
               /\ \A p \in UsesOf(clb.net[n].name, "RECEIVER") :
                      IsGlobalPin(p) = clb.net[n].is_global
               /\ \A j \in 2..Len(clb.net[n].pins) :
                      PinIsGlobal(clb.blist, clb.net[n].pins[j]) = clb.net[n].is_global
    /\ (NetlistRead /\ \E nm \in FileNets : MixedSinks(nm)) =>
           /\ pc = "fatal"
           /\ (WellDriven /\ clb.circuit_clocks = {}) =>
                  err = "Netlist attempts to connect net to both global and non-global pins"

\* a net with its global sink in the first block and its other sink in the
\* second was rejected
C24_Witness ==
    /\ NetlistRead /\ Len(clb.blist) = 2 /\ WellDriven
    /\ err = "Netlist attempts to connect net to both global and non-global pins"
    /\ \E p, q \in UsesOf("n1", "RECEIVER") :
           p[1] = 1 /\ q[1] = 2 /\ IsGlobalPin(p) /\ ~IsGlobalPin(q)

\* the same with the blocks in the other order
C24_WitnessOtherOrder ==
    /\ NetlistRead /\ Len(clb.blist) = 2 /\ WellDriven
    /\ err = "Netlist attempts to connect net to both global and non-global pins"
    /\ \E p, q \in UsesOf("n1", "RECEIVER") :
           p[1] = 2 /\ q[1] = 1 /\ IsGlobalPin(p) /\ ~IsGlobalPin(q)

\* a clock net driven by a pad and a second net were loaded
C24_WitnessLoaded ==
    /\ NetlistRun /\ pc = "netlist_loaded" /\ Len(clb.net) = 2
    /\ \E n \in 1..2 : clb.net[n].is_global /\ clb.net[n].name \in clb.circuit_clocks
    /\ \E n \in 1..2 : ~clb.net[n].is_global /\ Len(clb.net[n].pins) = 2

\* the record names a tile outside the grid, whose tiles are numbered
\* 0..L_nx + 1 and 0..L_ny + 1 with the pads on the border
OutsideGrid(l) ==
    \/ Atoi(l[2]) \notin 0..(opt.L_nx + 1)
    \/ Atoi(l[3]) \notin 0..(opt.L_ny + 1)

\* a block record or array-size line was read last, behind the array-size
\* line a record needs and as the first array-size line
RecordAfterGridLast ==
    /\ PlaceRun /\ rp.lines # <<>>
    /\ IsBlockRecord(LastLine) /\ ReadBefore(IsArraySizeHeader)
FirstArraySizeLast ==
    /\ PlaceRun /\ rp.lines # <<>>
    /\ IsArraySizeHeader(LastLine) /\ ~ReadBefore(IsArraySizeHeader)

\* C22: a block record with x or y outside the grid, a record of a block
\* that is not in the netlist and an array-size line that differs from the
\* grid are rejected at that line, and the step that rejects a line leaves
\* the recorded locations as they were.
C22_BadRecordsRejected ==
    /\ [](/\ (RecordAfterGridLast /\ OutsideGrid(LastLine)) => RejectedAtLastLine
          /\ (RecordAfterGridLast /\ find_block(opt.block_list, LastLine[1]) = 0) =>
                 /\ RejectedAtLastLine
                 /\ err = "Block in placement file does not exist in netlist"
          /\ (FirstArraySizeLast /\ <<Atoi(LastLine[3]), Atoi(LastLine[5])>>
                                        # <<opt.L_nx, opt.L_ny>>) =>
                 /\ RejectedAtLastLine
                 /\ err = "Current FPGA size is different from size when placement generated")
    /\ [][pc' = "fatal" => rp'.block_locs = rp.block_locs]_vars

\* what read_place does of it: the unknown block and the differing size
\* are rejected, a rejected line records nothing, and a record of a known
\* block is stored with the coordinates of the file whatever they are
RecordsRejectedOrStored ==
    /\ [](/\ RecordAfterGridLast =>
                 IF find_block(opt.block_list, LastLine[1]) = 0
                 THEN /\ RejectedAtLastLine
                      /\ err = "Block in placement file does not exist in netlist"
                 ELSE /\ pc # "fatal"
                      /\ rp.block_locs[find_block(opt.block_list, LastLine[1])]
                            = <<Atoi(LastLine[2]), Atoi(LastLine[3]), Atoi(LastLine[4])>>
          /\ (FirstArraySizeLast /\ <<Atoi(LastLine[3]), Atoi(LastLine[5])>>
                                        # <<opt.L_nx, opt.L_ny>>) =>
                 /\ RejectedAtLastLine
                 /\ err = "Current FPGA size is different from size when placement generated")
    /\ [][pc' = "fatal" => rp'.block_locs = rp.block_locs]_vars

\* a record with x = 9 on the 2 x 2 grid was stored and the file read to its end
OutsideGridStored ==
    /\ PlaceRun /\ pc = "placed" /\ rp.block_locs # <<>>
    /\ \E b \in 1..Len(rp.block_locs) : rp.block_locs[b][1] = 9

(***************************************************************************)
(* check_clocks, called by do_clustering before alloc_and_init_clustering  *)
(* and the first seed.                                                     *)
(***************************************************************************)
\* l1 -> f1 -> l1 with the clock of f1 made by l3; the fourth atom is a LUT
\* away from the clock, an output pad on the clock or a LUT on the clock
ClockNetlist(fourth, is_clock) ==
    [model |-> <<"lut", "ff", "lut", IF fourth = "outpad" THEN "outpad" ELSE "lut">>,
     pins  |-> << <<Pin("in", 0, "in", 3), Pin("out", 0, "out", 1)>>,
                  <<Pin("D", 0, "in", 1), Pin("clk", 0, "clk", 2), Pin("Q", 0, "out", 3)>>,
                  <<Pin("in", 0, "in", 3), Pin("out", 0, "out", 2)>>,
                  CASE fourth = "outpad" -> <<Pin("outpad", 0, "in", 2)>>
                    [] fourth = "lut_on_clock" -> <<Pin("in", 0, "in", 2)>>
                    [] OTHER -> <<Pin("in", 0, "in", 1)>> >>,
     num_nets |-> 3,
     molecules |-> << Mol(<<1>>, FALSE, FALSE, 1, 4, 1), Mol(<<2>>, FALSE, FALSE, 1, 3, 1),
                      Mol(<<3>>, FALSE, FALSE, 1, 2, 1), Mol(<<4>>, FALSE, FALSE, 1, 1, 1) >>,
     crit |-> <<3, 2, 1, 0>>,
     is_clock |-> is_clock]

FourthAtoms == {"lut", "outpad", "lut_on_clock"}

\* AtomNetlist::block_type
block_type(a) == IF NL.model[a] = "outpad" THEN "OUTPAD" ELSE "BLOCK"

\* fault: the clock pins are looked at too
check_clocks_with_clock_pins(is_clock) ==
    \E a \in Atoms :
        /\ block_type(a) # "OUTPAD"
        /\ \E i \in 1..Len(block_pins(a)) :
               block_pins(a)[i].kind \in {"in", "clk"} /\ block_pins(a)[i].net \in is_clock

\* check_clocks: TRUE when it throws, that is when an input pin of an atom
\* that is no output pad is on a net of is_clock
check_clocks(is_clock) ==
    \E a \in Atoms :
        /\ block_type(a) # "OUTPAD"
        /\ \E i \in 1..Len(block_input_pins(a)) : block_input_pins(a)[i].net \in is_clock

ClockInit ==
    /\ \E fourth \in FourthAtoms :
       \E is_clock \in SUBSET (1..3) :
       \E unrelated \in BOOLEAN :
           opt = [scn |-> 5, netlist |-> ClockNetlist(fourth, is_clock),
                  allow_unrelated_clustering |-> unrelated,
                  cluster_seed_type |-> "VPACK_TIMING", aspect_den |-> 1,
                  critindexarray |-> <<1, 2, 3, 4>>, molecule_array |-> <<4, 3, 2, 1>>]
    /\ lookup = [atom_clb |-> [a \in Atoms |-> NO_CLUSTER],
                 atom_pb  |-> [a \in Atoms |-> NoPb],
                 pb_atom  |-> [c \in ClbIndexes |-> [n \in Nodes |-> 0]]]
    /\ valid = [m \in 1..Len(opt.netlist.molecules) |-> TRUE]
    /\ clb = [c \in ClbIndexes |-> [name |-> 0, type |-> 0, pb |-> FALSE]]
    /\ pbs = [c \in ClbIndexes |-> EmptyTree]
    /\ ctl = [num_clb |-> 0, seedindex |-> 0, savedseedindex |-> 0,
              detailed_routing_stage |-> E_DETAILED_ROUTE_AT_END_ONLY,
              is_cluster_legal |-> FALSE, istart |-> 0, next_molecule |-> 0,
              prev_molecule |-> 0, block_pack_status |-> "BLK_STATUS_UNDEFINED",
              num_unrelated_clustering_attempts |-> 0, discards |-> 0]
    /\ dev = [nx |-> 1, ny |-> 1,
              num_used_instances_type |-> [t \in BlockTypes |-> 0],
              num_instances_type |-> [t \in BlockTypes |-> 0]]
    /\ cps = reset_cluster_placement_stats(0, 0)
    /\ router = [live |-> 0, targets |-> {}, modes |-> {}, fails |-> 0,
                 intra_lb_routing |-> <<>>]
    /\ nets_in_lb = [c \in ClbIndexes |-> <<>>]
    /\ snc = [i |-> 0, j |-> 0, count |-> 0, success |-> FALSE]
    /\ tp = NoFrame
    /\ pc = "check_clocks"
    /\ err = ""
    /\ rp = NoPlaceFile

\* check_clocks(is_clock); the set-up that follows it changes nothing the
\* model holds
CheckClocks ==
    /\ pc = "check_clocks"
    /\ IF check_clocks(opt.netlist.is_clock)
       THEN Fatal("PackError: check_clocks")
       ELSE pc' = "seed" /\ err' = err
    /\ UNCHANGED <<rp, opt, lookup, valid, clb, pbs, ctl, dev, cps, router, nets_in_lb, snc, tp>>

\* do_clustering from check_clocks to the placement of the first seed
ClockNext ==
    \/ CheckClocks
    \/ SelectFirstSeed
    \/ LoopTop
    \/ StageTop
    \/ SncType
    \/ SncMode
    \/ SncRet
    \/ SncAfter
    \/ TryPackStep

ClockSpec == ClockInit /\ [][ClockNext]_vars

\* a clock net on an input pin that is no clock pin of an atom that is no
\* output pad, read off the netlist
ClockOnLogicInput ==
    \E a \in Atoms : \E i \in 1..Len(NL.pins[a]) :
        /\ NL.model[a] # "outpad"
        /\ NL.pins[a][i].kind = "in"
        /\ NL.pins[a][i].net \in NL.is_clock

\* nothing of the packing has happened: no cluster has a name or a pb, no
\* atom is in a cluster or a pb, every molecule is valid
NothingPacked ==
    /\ ctl.num_clb = 0
    /\ \A c \in ClbIndexes : clb[c].name = 0 /\ ~clb[c].pb /\ pbs[c] = EmptyTree
    /\ \A a \in Atoms : atom_clb(lookup, a) = NO_CLUSTER /\ atom_pb(lookup, a) = NoPb
    /\ \A mm \in 1..Len(valid) : valid[mm]
    /\ router.live = 0

\* C23: when a clock net is on a non-clock input pin of an atom that is no
\* output pad, do_clustering ends with the PackError of check_clocks and no
\* step of the packing is ever taken: no cluster is opened, no atom mapped
\* and no molecule flag changed.  Without such a pin check_clocks raises
\* nothing.
C23_ClockOnLogicInputEndsBeforePacking ==
    /\ ClockOnLogicInput =>
           /\ pc \in {"check_clocks", "fatal"}
           /\ NothingPacked
           /\ pc = "fatal" => err = "PackError: check_clocks"
    /\ ~ClockOnLogicInput => err # "PackError: check_clocks"

\* check_clocks has thrown for the LUT on the clock net
C23_Witness ==
    /\ pc = "fatal" /\ err = "PackError: check_clocks"
    /\ NL.is_clock = {2} /\ NL.model[4] = "lut" /\ NL.pins[4][1].net = 2

\* with the clock on a clock pin and an output pad only the seed was placed
C23_WitnessPacked ==
    /\ NL.is_clock = {2} /\ NL.model[4] = "outpad"
    /\ pc = "ucs_seed" /\ atom_clb(lookup, 1) = 0 /\ ~valid[1]

\* the nets of a committed pin-class vector: the entries that hold a net
ValidNets(used) == {used[i] : i \in {j \in 1..Len(used) : used[j] # 0}}

\* the last try_pack_molecule call passed and update_cluster_stats has run
MoleculeCommitted == pc = "grow" /\ tp.status = "BLK_PASSED"

\* the pbs of the open cluster that have a name and are no primitives
NamedContainers ==
    {x \in Nodes : ~IsPrimitive(x) /\ pbs[ctl.num_clb - 1][x].name # 0}

\* C25: once a molecule is committed, in every named pb of the cluster that
\* is no primitive the nets held by input_pins_used and output_pins_used are
\* the nets of the lookahead vectors of the call that passed, so a net that
\* no longer needs a pin is in neither.
C25_CommittedNetsAreLookaheadNets ==
    MoleculeCommitted =>
        \A x \in NamedContainers :
            LET st == pbs[ctl.num_clb - 1][x].stats
            IN  /\ ValidNets(st.input_pins_used) = SeqToSet(st.lookahead_input_pins_used)
                /\ ValidNets(st.output_pins_used) = SeqToSet(st.lookahead_output_pins_used)

\* what the commit does: the lookahead vector overwrites the front of the
\* committed vector and the entries behind it stay
CommittedFrontIsLookahead ==
    MoleculeCommitted =>
        \A x \in NamedContainers :
            LET st == pbs[ctl.num_clb - 1][x].stats
            IN  /\ Len(st.lookahead_input_pins_used) <= Len(st.input_pins_used)
                /\ SubSeq(st.input_pins_used, 1, Len(st.lookahead_input_pins_used))
                       = st.lookahead_input_pins_used
                /\ Len(st.lookahead_output_pins_used) <= Len(st.output_pins_used)
                /\ SubSeq(st.output_pins_used, 1, Len(st.lookahead_output_pins_used))
                       = st.lookahead_output_pins_used

\* a committed vector holds a net its lookahead vector has dropped
StaleCommittedNet ==
    /\ MoleculeCommitted
    /\ \E x \in NamedContainers :
           LET st == pbs[ctl.num_clb - 1][x].stats
           IN  \/ ValidNets(st.input_pins_used) \ SeqToSet(st.lookahead_input_pins_used) # {}
               \/ ValidNets(st.output_pins_used) \ SeqToSet(st.lookahead_output_pins_used) # {}

\* the last pass of try_pack_molecule passed, and no later call has begun
JustPassed == tp.status = "BLK_PASSED" /\ pc \in {"snc_ret", "grow_ret", "ucs_seed", "grow"}

\* the atoms placed on primitives below pb x of the cluster of the call
PlacedBelow(x) ==
    {a \in Atoms : /\ atom_clb(lookup, a) = tp.clb_index
                   /\ atom_pb(lookup, a) # NoPb
                   /\ x \in SeqToSet(AncestorsOf(atom_pb(lookup, a)[2]))}

PrimitiveOf(a) == atom_pb(lookup, a)[2]

\* the driver of the net of an input pin of atom a lies below x and its
\* output pin reaches the pin inside x
DrivenInside(x, a, pin) ==
    LET drv == net_driver_block(pin.net)
    IN  /\ drv # 0 /\ drv \in PlacedBelow(x)
        /\ <<PrimitiveOf(a), pin.port, pin.bit>>
               \in ConnectableInputPins(PrimitiveOf(drv), NodeDepth[x])

\* every sink of the net of an output pin of atom a is in the cluster of
\* the driver and is reached from the pin inside x
AllSinksReached(x, a, pin) ==
    \A i \in 1..Len(net_sinks(pin.net)) :
        LET s == net_sinks(pin.net)[i]
        IN  /\ atom_clb(lookup, s[1]) = atom_clb(lookup, a)
            /\ <<PrimitiveOf(s[1]), s[2].port, s[2].bit>>
                   \in ConnectableInputPins(PrimitiveOf(a), NodeDepth[x])

PinsOn(a, kinds) == {block_pins(a)[i] : i \in {j \in 1..Len(block_pins(a)) :
                                                  block_pins(a)[j].kind \in kinds}}

InputNetsCharged(x) ==
    {pin.net : pin \in UNION {{q \in PinsOn(a, {"in", "clk"}) : ~DrivenInside(x, a, q)} :
                                  a \in PlacedBelow(x)}}

OpenOutputNetlist(read) ==
    [model |-> <<"lut", "ff", "lut", "lut">>,
     pins  |-> << <<Pin("in", 0, "in", 4), Pin("out", 0, "out", 1)>>,
                  <<Pin("D", 0, "in", 1), Pin("Q", 0, "out", 2)>>,
                  IF read
                  THEN <<Pin("in", 0, "in", 4), Pin("in", 1, "in", 2), Pin("out", 0, "out", 3)>>
                  ELSE <<Pin("in", 0, "in", 4), Pin("out", 0, "out", 3)>>,
                  <<Pin("in", 0, "in", 3), Pin("out", 0, "out", 4)>> >>,
     num_nets |-> 4,
     molecules |-> << Mol(<<1, 2>>, TRUE, FALSE, 1, 5, 1),
                      Mol(<<3>>, FALSE, FALSE, 1, 4, IF read THEN 2 ELSE 1),
                      Mol(<<4>>, FALSE, FALSE, 1, 3, 1) >>,
     crit |-> <<3, 2, 1, 0>>]

OpenOutputInit ==
    /\ \E read \in BOOLEAN :
       \E unrelated \in BOOLEAN :
       \E seed \in {"VPACK_TIMING", "VPACK_MAX_INPUTS"} :
           opt = [scn |-> 6, netlist |-> OpenOutputNetlist(read),
                  allow_unrelated_clustering |-> unrelated,
                  cluster_seed_type |-> seed, aspect_den |-> 1,
                  critindexarray |-> <<1, 2, 3, 4>>, molecule_array |-> <<3, 2, 1>>]
    /\ lookup = [atom_clb |-> [a \in Atoms |-> NO_CLUSTER],
                 atom_pb  |-> [a \in Atoms |-> NoPb],
                 pb_atom  |-> [c \in ClbIndexes |-> [n \in Nodes |-> 0]]]
    /\ valid = [m \in 1..Len(opt.netlist.molecules) |-> TRUE]
    /\ clb = [c \in ClbIndexes |-> [name |-> 0, type |-> 0, pb |-> FALSE]]
    /\ pbs = [c \in ClbIndexes |-> EmptyTree]
    /\ ctl = [num_clb |-> 0, seedindex |-> 0, savedseedindex |-> 0,
              detailed_routing_stage |-> E_DETAILED_ROUTE_AT_END_ONLY,
              is_cluster_legal |-> FALSE, istart |-> 0, next_molecule |-> 0,
              prev_molecule |-> 0, block_pack_status |-> "BLK_STATUS_UNDEFINED",
              num_unrelated_clustering_attempts |-> 0, discards |-> 0]
    /\ dev = [nx |-> 1, ny |-> 1,
              num_used_instances_type |-> [t \in BlockTypes |-> 0],
              num_instances_type |-> [t \in BlockTypes |-> 0]]
    /\ cps = reset_cluster_placement_stats(0, 0)
    /\ router = [live |-> 0, targets |-> {}, modes |-> {}, fails |-> 0,
                 intra_lb_routing |-> <<>>]
    /\ nets_in_lb = [c \in ClbIndexes |-> <<>>]
    /\ snc = [i |-> 0, j |-> 0, count |-> 0, success |-> FALSE]
    /\ tp = NoFrame
    /\ pc = "seed"
    /\ err = ""
    /\ rp = NoPlaceFile

OpenOutputSpec == OpenOutputInit /\ [][Next]_vars

C26_WitnessNoSink ==
    /\ JustPassed /\ net_sinks(2) = <<>> /\ 2 \in PlacedBelow(RootOf(PrimitiveOf(2)))
    /\ \A x \in SeqToSet(AncestorsOf(PrimitiveOf(2))) :
           2 \in SeqToSet(pbs[tp.clb_index][x].stats.lookahead_output_pins_used)

(***************************************************************************)
(* Nets of many sinks as a source of candidates: the packer runs on a      *)
(* netlist whose seed LUT l1 drives net 1 into k sinks and reads net 2 on  *)
(* j pins.                                                                 *)
(***************************************************************************)
\* n input pins on a net, on the bits from .. from + n - 1 of port in
InputsOn(n, net, from) == [i \in 1..n |-> Pin("in", from + i - 1, "in", net)]

\* n sinks on a net: clock pins when the net is one of the clocks glob, as
\* check_clocks lets no clock net reach an input pin
SinksOn(n, net, from, glob) ==
    IF net \in glob THEN [i \in 1..n |-> Pin("clk", from + i - 1, "clk", net)]
    ELSE InputsOn(n, net, from)

\* the sinks a net of many sinks has on each of two of its three atoms
HighFanoutShare == 86

\* the sinks l2 has on net 2: with the driver l4 they make 10 offers
HighFanoutFew == AAPACK_MAX_HIGH_FANOUT_EXPLORE - 1

\* l1 drives net 1 into k sinks on l2, l3 and l4; l4 drives net 2 into j
\* sinks: one pin of l1, or pins of l1, l2 and l3; glob are the clock nets,
\* which the caller names global
HighFanoutNetlist(k, j, glob) ==
    LET wide == j > 2 * HighFanoutShare
    IN  [model |-> <<"lut", "lut", "lut", "lut">>,
         pins  |-> << InputsOn(IF wide THEN j - HighFanoutShare - HighFanoutFew ELSE j, 2, 0)
                          \o <<Pin("out", 0, "out", 1)>>,
                      SinksOn(k - 2 * HighFanoutShare, 1, 0, glob)
                          \o InputsOn(IF wide THEN HighFanoutFew ELSE 0, 2,
                                      k - 2 * HighFanoutShare),
                      SinksOn(HighFanoutShare, 1, 0, glob)
                          \o InputsOn(IF wide THEN HighFanoutShare ELSE 0, 2, HighFanoutShare),
                      SinksOn(HighFanoutShare, 1, 0, glob) \o <<Pin("out", 0, "out", 2)>> >>,
         num_nets |-> 2,
         molecules |-> << Mol(<<1>>, FALSE, FALSE, 1, 4, 1), Mol(<<2>>, FALSE, FALSE, 1, 3, 1),
                          Mol(<<3>>, FALSE, FALSE, 1, 2, 1), Mol(<<4>>, FALSE, FALSE, 1, 1, 0) >>,
         crit |-> <<3, 2, 1, 0>>,
         is_clock |-> glob]

\* net 1 has 258 sinks; net 2 has one sink, or a sink less or more than
\* net 1; with one sink on net 2, net 1 may be global
HighFanoutCases ==
    {<<1, {}>>, <<1, {1}>>, <<AAPACK_MAX_NET_SINKS_IGNORE + 1, {}>>,
     <<AAPACK_MAX_NET_SINKS_IGNORE + 3, {}>>}

HighFanoutInit ==
    /\ \E case \in HighFanoutCases :
           opt = [scn |-> 7,
                  netlist |-> HighFanoutNetlist(AAPACK_MAX_NET_SINKS_IGNORE + 2,
                                                case[1], case[2]),
                  allow_unrelated_clustering |-> FALSE,
                  cluster_seed_type |-> "VPACK_TIMING", aspect_den |-> 1,
                  critindexarray |-> <<1, 2, 3, 4>>, molecule_array |-> <<4, 3, 2, 1>>]
    /\ lookup = [atom_clb |-> [a \in Atoms |-> NO_CLUSTER],
                 atom_pb  |-> [a \in Atoms |-> NoPb],
                 pb_atom  |-> [c \in ClbIndexes |-> [n \in Nodes |-> 0]]]
    /\ valid = [m \in 1..Len(opt.netlist.molecules) |-> TRUE]
    /\ clb = [c \in ClbIndexes |-> [name |-> 0, type |-> 0, pb |-> FALSE]]
    /\ pbs = [c \in ClbIndexes |-> EmptyTree]
    /\ ctl = [num_clb |-> 0, seedindex |-> 0, savedseedindex |-> 0,
              detailed_routing_stage |-> E_DETAILED_ROUTE_AT_END_ONLY,
              is_cluster_legal |-> FALSE, istart |-> 0, next_molecule |-> 0,
              prev_molecule |-> 0, block_pack_status |-> "BLK_STATUS_UNDEFINED",
              num_unrelated_clustering_attempts |-> 0, discards |-> 0]
    /\ dev = [nx |-> 1, ny |-> 1,
              num_used_instances_type |-> [t \in BlockTypes |-> 0],
              num_instances_type |-> [t \in BlockTypes |-> 0]]
    /\ cps = reset_cluster_placement_stats(0, 0)
    /\ router = [live |-> 0, targets |-> {}, modes |-> {}, fails |-> 0,
                 intra_lb_routing |-> <<>>]
    /\ nets_in_lb = [c \in ClbIndexes |-> <<>>]
    /\ snc = [i |-> 0, j |-> 0, count |-> 0, success |-> FALSE]
    /\ tp = NoFrame
    /\ pc = "seed"
    /\ err = ""
    /\ rp = NoPlaceFile

\* do_clustering up to the end of the growth of the first cluster
HighFanoutNext ==
    \/ SelectFirstSeed
    \/ LoopTop
    \/ StageTop
    \/ SncType
    \/ SncMode
    \/ SncRet
    \/ SncAfter
    \/ TryPackStep
    \/ UpdateSeedStats
    \/ Grow
    \/ GrowRet

HighFanoutSpec == HighFanoutInit /\ [][HighFanoutNext]_vars

\* a step of do_clustering that asks for the next candidate; after a
\* molecule that passed, update_cluster_stats runs first
AtCandidateRequest == pc \in {"ucs_seed", "grow_ret"}
StatsUpdated == pc = "ucs_seed" \/ tp.status = "BLK_PASSED"
RequestCluster == IF pc = "ucs_seed" THEN ctl.num_clb ELSE ctl.num_clb - 1
RequestMolecule == IF pc = "ucs_seed" THEN ctl.istart ELSE ctl.next_molecule
RequestRoot == pb_graph_head(clb[RequestCluster].type)

\* the stats of the root pb when get_molecule_for_cluster is called
StatsAtRequest ==
    IF StatsUpdated
    THEN update_cluster_stats(pbs, lookup, RequestMolecule,
                              RequestCluster).pbs[RequestCluster][RequestRoot].stats
    ELSE pbs[RequestCluster][RequestRoot].stats

\* a net of more than 256 sinks that is not global
ManySinks(n) == Len(net_sinks(n)) > 256 /\ ~IsGlobalNet(n)

\* the nets update_cluster_stats touches for atom a, in order: outputs,
\* inputs, clocks
NetsOfPins(ps) == [i \in 1..Len(ps) |-> ps[i].net]
TouchedByAtom(a) ==
    NetsOfPins(block_output_pins(a)) \o NetsOfPins(block_input_pins(a))
    \o NetsOfPins(block_clock_pins(a))
TouchedNets(mol) ==
    FlatMap([a \in Atoms |-> TouchedByAtom(a)],
            SelectSeq(molecule(mol).atom_block_ids, LAMBDA a : a # 0))

\* the position of the first touch of net n in a sequence of touches
FirstTouch(touched, n) ==
    LET at == {i \in 1..Len(touched) : touched[i] = n}
    IN  CHOOSE i \in at : \A k \in at : i <= k

\* the nets of many sinks among the touched ones
ManySinksTouched(touched) == {n \in SeqToSet(touched) : ManySinks(n)}

\* no atom that was committed to the cluster before molecule mol is on net n
NotYetTouched(n, c, mol) ==
    \A a \in Atoms \ MoleculeAtoms(mol) :
        atom_clb(lookup, a) = c => n \notin SeqToSet(TouchedByAtom(a))

\* every net of many sinks is stored at its first touch: after the update the
\* field holds it or a net of many sinks that was touched later
StoredOnFirstTouch ==
    (AtCandidateRequest /\ StatsUpdated) =>
        \A touched \in {TouchedNets(RequestMolecule)} :
        \A stored \in {StatsAtRequest.tie_break_high_fanout_net} :
        \A many \in {ManySinksTouched(touched)} :
            \A n \in many :
                NotYetTouched(n, RequestCluster, RequestMolecule) =>
                    /\ stored \in many
                    /\ FirstTouch(touched, n) <= FirstTouch(touched, stored)

\* a touch stores the net when none is stored or it has fewer sinks: after
\* the update the field holds, of the net stored before and the touched nets
\* of many sinks, the first one of the fewest sinks
StoredWhenFewerSinks ==
    (AtCandidateRequest /\ StatsUpdated) =>
        \A touched \in {TouchedNets(RequestMolecule)} :
        \A stored \in {StatsAtRequest.tie_break_high_fanout_net} :
        \A prev \in {pbs[RequestCluster][RequestRoot].stats.tie_break_high_fanout_net} :
        \A cand \in {ManySinksTouched(touched) \cup (IF prev # 0 THEN {prev} ELSE {})} :
        \A least \in {{n \in cand : \A x \in cand : Len(net_sinks(n)) <= Len(net_sinks(x))}} :
            IF cand = {} THEN stored = 0
            ELSE /\ stored \in least
                 /\ prev \in least => stored = prev
                 /\ prev \notin least =>
                        \A x \in least : FirstTouch(touched, stored) <= FirstTouch(touched, x)

\* the strong-neighbour queue the request starts from: the queue that is
\* there, or the valid molecules of the unclustered marked blocks that fit
StrongQueueEmpty(st) ==
    IF st.num_feasible_blocks # NOT_VALID THEN st.num_feasible_blocks = 0
    ELSE \A i \in 1..Len(st.marked_blocks) :
            atom_clb(lookup', st.marked_blocks[i]) = NO_CLUSTER =>
                \A mol \in atom_molecules(st.marked_blocks[i]) :
                    ~(valid[mol] /\ MoleculeFits(cps, mol))

\* the molecules one visit of a pin of atom a offers: the valid molecules
\* that fit of an unclustered atom
OfferedOf(a) ==
    IF atom_clb(lookup', a) # NO_CLUSTER THEN {}
    ELSE {mol \in atom_molecules(a) : valid[mol] /\ MoleculeFits(cps, mol)}

\* pin i of the net is visited: fewer than 10 offers were made before it
Visited(pins, i, offered) ==
    Cardinality({q \in (1..(i - 1)) \X Molecules : q[2] \in offered[pins[q[1]][1]]}) < 10

\* the molecules the exploration of a net offers to the queue
ExploredMolecules(net) ==
    UNION {UNION {offered[pins[i][1]] : i \in {k \in 1..Len(pins) : Visited(pins, k, offered)}} :
              <<pins, offered>> \in {<<net_pins(net), [a \in Atoms |-> OfferedOf(a)]>>}}

\* the candidates a request leaves: the queue and the molecule it returned
CandidatesLeft ==
    SeqToSet(pbs'[RequestCluster][RequestRoot].stats.feasible_blocks)
    \cup ({ctl'.next_molecule} \ {0})

\* the stored net is explored in a request exactly when the strong-neighbour
\* queue is empty; the exploration enqueues the molecules of the unclustered
\* atoms met on the pins of the net until 10 were offered, and clears the
\* field whether or not there was one
ExploredWhenQueueEmpty ==
    (AtCandidateRequest /\ pc' = "grow") =>
        \A before \in {StatsAtRequest} :
        \A after \in {pbs'[RequestCluster][RequestRoot].stats} :
        \A net \in {before.tie_break_high_fanout_net} :
        \A found \in {IF net = 0 THEN {} ELSE ExploredMolecules(net)} :
            IF net # 0 /\ StrongQueueEmpty(before)
            THEN /\ after.tie_break_high_fanout_net = 0
                 /\ cps'.tried = {}
                 /\ found # {} =>
                        /\ CandidatesLeft = found
                        /\ Cardinality(CandidatesLeft) <= 10
                        /\ \A mol \in CandidatesLeft :
                               \E a \in MoleculeAtoms(mol) :
                                   /\ atom_clb(lookup', a) = NO_CLUSTER
                                   /\ \E i \in 1..Len(net_pins(net)) : net_pins(net)[i][1] = a
            ELSE /\ after.tie_break_high_fanout_net = net
                 /\ cps' = cps

\* C27 as stated: a non-global net of more than 256 sinks touched by a
\* committed atom is stored in tie_break_high_fanout_net of the cluster root
\* on first touch; the stored net is explored only in a candidate request
\* whose strong-neighbour queue is empty, the exploration enqueues at most 10
\* molecules of unclustered atoms on the net, and the field is cleared at the
\* end of the exploration whether or not a candidate was found.
C27_StoredOnFirstTouchExploredOnce ==
    [][StoredOnFirstTouch /\ ExploredWhenQueueEmpty]_vars

\* C27 (amended): a non-global net of more than 256 sinks touched by a
\* committed atom is stored in tie_break_high_fanout_net of the cluster root
\* when no net is stored there or when it has fewer sinks than the stored
\* net, otherwise the stored net is kept; the stored net is explored only in
\* a candidate request whose strong-neighbour queue is empty, the exploration
\* enqueues at most 10 molecules of unclustered atoms on the net, and the
\* field is cleared at the end of the exploration whether or not a candidate
\* was found.
C27_StoredWhenFewerSinksExploredOnce ==
    [][StoredWhenFewerSinks /\ ExploredWhenQueueEmpty]_vars

\* the root pb of the first cluster
FirstRootStats == pbs[0][pb_graph_head(clb[0].type)].stats

\* the seed l1 touched net 1 and then net 2, both of many sinks and net 2
\* of more sinks: net 1 was stored and explored at once, the field is clear
\* again, and the ten offers of the exploration all went to l2, so that l3,
\* unclustered and on net 1, is no candidate
C27_Witness ==
    /\ pc = "grow" /\ lookup.atom_clb = <<0, NO_CLUSTER, NO_CLUSTER, NO_CLUSTER>>
    /\ ManySinks(1) /\ ManySinks(2) /\ Len(net_sinks(2)) > Len(net_sinks(1))
    /\ FirstRootStats.tie_break_high_fanout_net = 0
    /\ ctl.next_molecule = 2 /\ FirstRootStats.feasible_blocks = <<>>

\* net 2 has fewer sinks than net 1 and took its place: the exploration
\* offered l4, the driver of net 2, and nine times l2, and stopped before l3
C27_WitnessReplaced ==
    /\ pc = "grow" /\ lookup.atom_clb = <<0, NO_CLUSTER, NO_CLUSTER, NO_CLUSTER>>
    /\ ManySinks(1) /\ ManySinks(2) /\ Len(net_sinks(2)) < Len(net_sinks(1))
    /\ FirstRootStats.tie_break_high_fanout_net = 0
    /\ ctl.next_molecule = 4 /\ FirstRootStats.feasible_blocks = <<2>>

\* the strong-neighbour queue held l4, so net 1 stays stored
C27_WitnessKept ==
    /\ pc = "grow" /\ lookup.atom_clb = <<0, NO_CLUSTER, NO_CLUSTER, NO_CLUSTER>>
    /\ FirstRootStats.tie_break_high_fanout_net = 1
    /\ ctl.next_molecule = 4

\* net 1 was explored when the cluster had no room left: no candidate, and
\* the field is clear
C27_WitnessNoCandidate ==
    /\ pc = "grow" /\ lookup.atom_clb = <<0, NO_CLUSTER, NO_CLUSTER, 0>>
    /\ ManySinks(1)
    /\ FirstRootStats.tie_break_high_fanout_net = 0
    /\ ctl.next_molecule = 0

\* a global net of many sinks is not stored
C27_WitnessGlobal ==
    /\ pc = "grow" /\ atom_clb(lookup, 1) = 0
    /\ IsGlobalNet(1) /\ Len(net_sinks(1)) > 256
    /\ FirstRootStats.tie_break_high_fanout_net = 0
    /\ ctl.next_molecule = 4

(***************************************************************************)
(* The transitive fanout as a source of candidates: the packer runs on a   *)
(* netlist whose second seed l3 reaches the first cluster over a net of    *)
(* p + 1 pins, and the first cluster exports a net to l4.                  *)
(***************************************************************************)
\* l1 drives net 1 into l2; l3 drives net 3 into p pins of l2; l2 drives
\* net 2 into l4
TransitiveNetlist(p) ==
    [model |-> <<"lut", "lut", "lut", "lut">>,
     pins  |-> << <<Pin("out", 0, "out", 1)>>,
                  <<Pin("in", 0, "in", 1)>> \o InputsOn(p, 3, 1)
                      \o <<Pin("out", 0, "out", 2)>>,
                  <<Pin("out", 0, "out", 3)>>,
                  <<Pin("in", 0, "in", 2)>> >>,
     num_nets |-> 3,
     molecules |-> << Mol(<<1>>, FALSE, FALSE, 1, 4, 0), Mol(<<2>>, FALSE, FALSE, 1, 3, 2),
                      Mol(<<3>>, FALSE, FALSE, 1, 2, 0), Mol(<<4>>, FALSE, FALSE, 1, 1, 1) >>,
     crit |-> <<3, 2, 1, 0>>]

\* the pins l2 has on net 3: the net has 3, 4 or 5 pins
TransitivePins ==
    (AAPACK_MAX_TRANSITIVE_FANOUT_EXPLORE - 2)..AAPACK_MAX_TRANSITIVE_FANOUT_EXPLORE

TransitiveInit ==
    /\ \E p \in TransitivePins :
       \E unrelated \in BOOLEAN :
           opt = [scn |-> 8, netlist |-> TransitiveNetlist(p),
                  allow_unrelated_clustering |-> unrelated,
                  cluster_seed_type |-> "VPACK_TIMING", aspect_den |-> 1,
                  critindexarray |-> <<1, 2, 3, 4>>, molecule_array |-> <<4, 3, 2, 1>>]
    /\ lookup = [atom_clb |-> [a \in Atoms |-> NO_CLUSTER],
                 atom_pb  |-> [a \in Atoms |-> NoPb],
                 pb_atom  |-> [c \in ClbIndexes |-> [n \in Nodes |-> 0]]]
    /\ valid = [m \in 1..Len(opt.netlist.molecules) |-> TRUE]
    /\ clb = [c \in ClbIndexes |-> [name |-> 0, type |-> 0, pb |-> FALSE]]
    /\ pbs = [c \in ClbIndexes |-> EmptyTree]
    /\ ctl = [num_clb |-> 0, seedindex |-> 0, savedseedindex |-> 0,
              detailed_routing_stage |-> E_DETAILED_ROUTE_AT_END_ONLY,
              is_cluster_legal |-> FALSE, istart |-> 0, next_molecule |-> 0,
              prev_molecule |-> 0, block_pack_status |-> "BLK_STATUS_UNDEFINED",
              num_unrelated_clustering_attempts |-> 0, discards |-> 0]
    /\ dev = [nx |-> 1, ny |-> 1,
              num_used_instances_type |-> [t \in BlockTypes |-> 0],
              num_instances_type |-> [t \in BlockTypes |-> 0]]
    /\ cps = reset_cluster_placement_stats(0, 0)
    /\ router = [live |-> 0, targets |-> {}, modes |-> {}, fails |-> 0,
                 intra_lb_routing |-> <<>>]
    /\ nets_in_lb = [c \in ClbIndexes |-> <<>>]
    /\ snc = [i |-> 0, j |-> 0, count |-> 0, success |-> FALSE]
    /\ tp = NoFrame
    /\ pc = "seed"
    /\ err = ""
    /\ rp = NoPlaceFile

TransitiveSpec == TransitiveInit /\ [][Next]_vars

\* the valid molecules of the unclustered atoms on the nets that a cluster
\* exported, for the clusters other than c that hold a pin of a marked net
\* of fewer than limit pins
TransitiveVia(marked, limit, c) ==
    {mol \in Molecules :
        /\ valid[mol]
        /\ \E k \in 1..Len(marked) :
               /\ Len(net_pins(marked[k])) < limit
               /\ \E i \in 1..Len(net_pins(marked[k])) :
                      LET tclb == atom_clb(lookup', net_pins(marked[k])[i][1])
                      IN  /\ tclb # c /\ tclb # NO_CLUSTER
                          /\ \E t \in 1..Len(nets_in_lb[tclb]) :
                             \E x \in Atoms :
                                 /\ atom_clb(lookup', x) = NO_CLUSTER
                                 /\ mol \in atom_molecules(x)
                                 /\ \E q \in 1..Len(net_pins(nets_in_lb[tclb][t])) :
                                        net_pins(nets_in_lb[tclb][t])[q][1] = x}

\* a candidate request that loads the transitive candidates does so on an
\* empty queue with no net of many sinks left, loads the molecules reached
\* over the marked nets of fewer than limit pins, and leaves at most 4 of
\* them in the queue
TransitiveLoadedWhenQueueEmpty(limit) ==
    (AtCandidateRequest /\ pc' = "grow") =>
        \A before \in {StatsAtRequest} :
        \A after \in {pbs'[RequestCluster][RequestRoot].stats} :
        \A loaded \in {SeqToSet(after.transitive_fanout_candidates.list)} :
        \A fits \in {{mol \in loaded : valid[mol] /\ MoleculeFits(cps, mol)}} :
            (~before.transitive_fanout_candidates.loaded
             /\ after.transitive_fanout_candidates.loaded) =>
                /\ StrongQueueEmpty(before)
                /\ after.tie_break_high_fanout_net = 0
                /\ before.tie_break_high_fanout_net # 0 =>
                       ExploredMolecules(before.tie_break_high_fanout_net) = {}
                /\ loaded = TransitiveVia(before.marked_nets, limit, RequestCluster)
                /\ IF fits = {} THEN after.feasible_blocks = <<>>
                   ELSE /\ CandidatesLeft \subseteq fits
                        /\ Cardinality(CandidatesLeft) <= 4
                        /\ Cardinality(fits) < 4 => CandidatesLeft = fits

SecondSeedAlone ==
    /\ pc = "grow" /\ ctl.num_clb = 2
    /\ atom_clb(lookup, 2) = 0 /\ atom_clb(lookup, 3) = 1
    /\ atom_clb(lookup, 4) = NO_CLUSTER
    /\ 2 \in SeqToSet(nets_in_lb[0])
    /\ \A a \in Atoms \ {3} : atom_clb(lookup, a) # 1

SecondRootStats == pbs[1][pb_graph_head(clb[1].type)].stats

C28_WitnessFivePins ==
    /\ SecondSeedAlone /\ Len(net_pins(3)) = 5
    /\ SecondRootStats.transitive_fanout_candidates.loaded
    /\ SecondRootStats.transitive_fanout_candidates.list = <<>>

\* a candidate request that used the unrelated selector: unrelated
\* clustering is allowed, no related candidate was found and this is the
\* first such request since the last molecule that passed
UnrelatedAsked ==
    /\ AtCandidateRequest /\ pc' = "grow"
    /\ opt.allow_unrelated_clustering
    /\ ctl'.num_unrelated_clustering_attempts = 1
    /\ StatsUpdated \/ ctl.num_unrelated_clustering_attempts = 0

\* the valid molecules all of whose atoms have a free primitive in the open
\* cluster
FreeMolecules == {mol \in Molecules : valid[mol] /\ MoleculeFits(cps, mol)}

\* C29: when no related candidate exists and unrelated clustering is
\* allowed, the unrelated selector returns, among the valid molecules all of
\* whose atoms have a free primitive in the open cluster, one with the
\* largest num_ext_inputs; it returns nothing only if there is none.
C29_UnrelatedHasMostExtInputs ==
    [][UnrelatedAsked =>
          IF FreeMolecules = {} THEN ctl'.next_molecule = 0
          ELSE /\ ctl'.next_molecule \in FreeMolecules
               /\ \A x \in FreeMolecules :
                      molecule(x).num_ext_inputs
                          <= molecule(ctl'.next_molecule).num_ext_inputs]_vars

\* the input pins in use at the root pb of the open cluster after the step
UsedInputPins ==
    LET used == pbs'[RequestCluster][RequestRoot].stats.input_pins_used
    IN  Cardinality({j \in 1..Len(used) : used[j] # 0})

\* what the selector does return: one with the largest num_ext_inputs among
\* the free molecules that have no more external inputs than the root pb
\* has input pins in use
UnrelatedWithinUsedInputPins ==
    [][UnrelatedAsked =>
          \A near \in {{x \in FreeMolecules : molecule(x).num_ext_inputs <= UsedInputPins}} :
              IF near = {} THEN ctl'.next_molecule = 0
              ELSE /\ ctl'.next_molecule \in near
                   /\ \A x \in near :
                          molecule(x).num_ext_inputs
                              <= molecule(ctl'.next_molecule).num_ext_inputs]_vars

\* the selector returned nothing although a valid molecule has a free
\* primitive for each of its atoms
UnrelatedMissed ==
    /\ pc = "grow" /\ opt.allow_unrelated_clustering
    /\ ctl.num_unrelated_clustering_attempts = 1 /\ ctl.next_molecule = 0
    /\ FreeMolecules # {}

(***************************************************************************)
(* The unclustered list with few buckets: the packer runs on a netlist     *)
(* whose molecules have at most one external input, so that a cluster of   *)
(* two adders can have as many input pins in use as the list has buckets.  *)
(***************************************************************************)
\* LUT l3 drives net 1 into adder a1; LUT l4 drives net 2; adder a2 reads
\* the net given: net 2, or net 1 like a1
FewBucketsNetlist(second) ==
    [model |-> <<"adder", "adder", "lut", "lut">>,
     pins  |-> << <<Pin("a", 0, "in", 1), Pin("cout", 0, "out", 3)>>,
                  <<Pin("a", 0, "in", second), Pin("cout", 0, "out", 4)>>,
                  <<Pin("out", 0, "out", 1)>>,
                  <<Pin("out", 0, "out", 2)>> >>,
     num_nets |-> 4,
     molecules |-> << Mol(<<1>>, FALSE, FALSE, 1, 4, 1), Mol(<<2>>, FALSE, FALSE, 1, 3, 1),
                      Mol(<<3>>, FALSE, FALSE, 1, 2, 0), Mol(<<4>>, FALSE, FALSE, 1, 1, 0) >>,
     crit |-> <<3, 2, 1, 0>>]

FewBucketsInit ==
    /\ \E second \in 1..2 :
       \E unrelated \in BOOLEAN :
           opt = [scn |-> 9, netlist |-> FewBucketsNetlist(second),
                  allow_unrelated_clustering |-> unrelated,
                  cluster_seed_type |-> "VPACK_TIMING", aspect_den |-> 1,
                  critindexarray |-> <<1, 2, 3, 4>>, molecule_array |-> <<4, 3, 2, 1>>]
    /\ lookup = [atom_clb |-> [a \in Atoms |-> NO_CLUSTER],
                 atom_pb  |-> [a \in Atoms |-> NoPb],
                 pb_atom  |-> [c \in ClbIndexes |-> [n \in Nodes |-> 0]]]
    /\ valid = [m \in 1..Len(opt.netlist.molecules) |-> TRUE]
    /\ clb = [c \in ClbIndexes |-> [name |-> 0, type |-> 0, pb |-> FALSE]]
    /\ pbs = [c \in ClbIndexes |-> EmptyTree]
    /\ ctl = [num_clb |-> 0, seedindex |-> 0, savedseedindex |-> 0,
              detailed_routing_stage |-> E_DETAILED_ROUTE_AT_END_ONLY,
              is_cluster_legal |-> FALSE, istart |-> 0, next_molecule |-> 0,
              prev_molecule |-> 0, block_pack_status |-> "BLK_STATUS_UNDEFINED",
              num_unrelated_clustering_attempts |-> 0, discards |-> 0]
    /\ dev = [nx |-> 1, ny |-> 1,
              num_used_instances_type |-> [t \in BlockTypes |-> 0],
              num_instances_type |-> [t \in BlockTypes |-> 0]]
    /\ cps = reset_cluster_placement_stats(0, 0)
    /\ router = [live |-> 0, targets |-> {}, modes |-> {}, fails |-> 0,
                 intra_lb_routing |-> <<>>]
    /\ nets_in_lb = [c \in ClbIndexes |-> <<>>]
    /\ snc = [i |-> 0, j |-> 0, count |-> 0, success |-> FALSE]
    /\ tp = NoFrame
    /\ pc = "seed"
    /\ err = ""
    /\ rp = NoPlaceFile

FewBucketsSpec == FewBucketsInit /\ [][Next]_vars

\* the buckets get_free_molecule_with_most_ext_inputs_for_cluster may read
\* for the root pb of the open cluster after the step: it scans downwards
\* from its starting bucket to bucket 0
UnrelatedIndexes == 0..inputs_avail(pbs'[RequestCluster][RequestRoot])

\* the buckets alloc_and_init_clustering files the molecules under
\* (lines 893-896)
FiledIndexes == {molecule(mol).num_ext_inputs : mol \in Molecules}

\* the buckets get_seed_logical_molecule_with_most_ext_inputs may read
SeedIndexes == 0..max_molecule_inputs

UnclusteredListRange == 0..(unclustered_list_head_size - 1)

\* the input pins in use at the root pb reach the number of buckets
CapActs == UsedInputPins >= unclustered_list_head_size

\* C30: every index used on unclustered_list_head lies in
\* 0 .. unclustered_list_head_size-1: the buckets the molecules are filed
\* under, the buckets the seed selector scans, and the buckets the unrelated
\* selector scans, whose starting bucket is unclustered_list_head_size-1
\* whenever the cluster has at least that many input pins in use.
C30_UnclusteredListIndexInRange ==
    [][/\ FiledIndexes \subseteq UnclusteredListRange
       /\ SeedIndexes \subseteq UnclusteredListRange
       /\ UnrelatedAsked =>
              /\ UnrelatedIndexes \subseteq UnclusteredListRange
              /\ CapActs =>
                     UnrelatedIndexes = UnclusteredListRange]_vars

\* an unrelated request for a cluster with at least as many input pins in
\* use as there are buckets has been answered
C30_Witness ==
    /\ pc = "grow" /\ opt.allow_unrelated_clustering
    /\ ctl.num_unrelated_clustering_attempts = 1
    /\ clb # <<>>
    /\ \E c \in DOMAIN pbs : \E r \in DOMAIN pbs[c] :
           /\ r = RootOf(r)
           /\ LET used == pbs[c][r].stats.input_pins_used
              IN  Cardinality({j \in 1..Len(used) : used[j] # 0})
                      >= unclustered_list_head_size

(***************************************************************************)
(* The seed arrays: the timing set-up of do_clustering computes the        *)
(* criticality and the blend score of every atom and sorts the two seed    *)
(* arrays.  Criticalities are multiples of 1/MaxCrit; a score is held as   *)
(* the integer score * 10 * MaxCrit, which is exact.                       *)
(***************************************************************************)
\* setup_pin_criticality takes the values 0/MaxCrit .. MaxCrit/MaxCrit
MaxCrit == 2
\* the most input pins of the two atoms that have a molecule of their own only
MaxIn == 3

\* LUT l1 drives net 4 into l2, which also reads net 2: {l1, l2} is a
\* molecule of two blocks beside the molecules of l1 and of l2; l3 and l4
\* have n3 and n4 input pins and one molecule each
SeedNetlist(n3, n4) ==
    [model |-> <<"lut", "lut", "lut", "lut">>,
     pins  |-> << <<Pin("in", 0, "in", 1), Pin("out", 0, "out", 4)>>,
                  <<Pin("in", 0, "in", 4), Pin("in", 1, "in", 2)>>,
                  [i \in 1..n3 |-> Pin("in", i - 1, "in", i)],
                  [i \in 1..n4 |-> Pin("in", i - 1, "in", i)] >>,
     num_nets |-> 4,
     molecules |-> << Mol(<<1, 2>>, TRUE, FALSE, 1, 5, 2), Mol(<<1>>, FALSE, FALSE, 1, 4, 1),
                      Mol(<<2>>, FALSE, FALSE, 1, 3, 2), Mol(<<3>>, FALSE, FALSE, 1, 2, n3),
                      Mol(<<4>>, FALSE, FALSE, 1, 1, n4) >>,
     crit |-> <<0, 0, 0, 0>>]

\* the state before the loop of line 457: nothing pushed, no score
SeedOrderInit ==
    /\ \E n3 \in 0..MaxIn : \E n4 \in 0..MaxIn :
       \E pin_crit \in [Atoms -> 0..MaxCrit] :
           opt = [scn |-> 10, netlist |-> SeedNetlist(n3, n4), pin_crit |-> pin_crit]
    /\ ctl = [blk |-> 0,
              block_criticality |-> [a \in Atoms |-> 0],
              seed_blend_gain |-> [a \in Atoms |-> 0],
              critindexarray |-> <<>>, seed_blend_index_array |-> <<>>]
    /\ lookup = <<>> /\ valid = <<>> /\ clb = <<>> /\ pbs = <<>>
    /\ dev = <<>> /\ cps = <<>> /\ router = <<>> /\ nets_in_lb = <<>> /\ snc = <<>>
    /\ tp = <<>>
    /\ pc = "seed_arrays"
    /\ err = ""
    /\ rp = NoPlaceFile

\* timing_info->setup_pin_criticality(in_pin): the first input pin of an
\* atom has the criticality drawn for the atom, its other pins have 0
setup_pin_criticality(a, i) == IF i = 1 THEN opt.pin_crit[a] ELSE 0

\* lines 457-469: both arrays get the atoms in netlist order, and
\* block_criticality the largest criticality over the input pins
LoadCriticality ==
    /\ pc = "seed_arrays"
    /\ ctl' = [ctl EXCEPT
                 !.critindexarray = [i \in 1..Cardinality(Atoms) |-> i],
                 !.seed_blend_index_array = [i \in 1..Cardinality(Atoms) |-> i],
                 !.block_criticality =
                     [a \in Atoms |->
                         MaxOf({0} \cup {setup_pin_criticality(a, i) :
                                             i \in 1..Len(block_input_pins(a))})],
                 !.blk = 1]
    /\ pc' = "score"
    /\ UNCHANGED <<opt, lookup, valid, clb, pbs, dev, cps, router, nets_in_lb, snc, tp,
                   err, rp>>

\* lines 489-491, times 10 * MaxCrit: 0.5 * crit is crit / (2 * MaxCrit),
\* inputs_of_molecule / max_molecule_inputs is a division of two ints, and
\* 1 + 0.2 * (blocks - 1) is (blocks + 4) / 5
blend_gain(crit, m) ==
    (crit + MaxCrit * (molecule(m).num_ext_inputs \div max_molecule_inputs))
        * (Cardinality(MoleculeAtoms(m)) + 4)

\* lines 471-498 for one atom: the largest blend_gain over its molecules
ScoreBlock ==
    /\ pc = "score"
    /\ IF max_molecule_inputs > 0
       THEN /\ ctl' = [ctl EXCEPT
                         !.seed_blend_gain[ctl.blk] =
                             MaxOf({0} \cup {blend_gain(ctl.block_criticality[ctl.blk], m) :
                                                 m \in atom_molecules(ctl.blk)}),
                         !.blk = @ + 1]
            /\ pc' = IF ctl.blk = Cardinality(Atoms) THEN "sort_crit" ELSE "score"
            /\ err' = err
       ELSE /\ pc' = "fatal" /\ err' = "assert" /\ ctl' = ctl
    /\ UNCHANGED <<opt, lookup, valid, clb, pbs, dev, cps, router, nets_in_lb, snc, tp, rp>>

\* lines 501-505: std::sort with the comparator
\* block_criticality[lhs] > block_criticality[rhs]
SortCritIndex ==
    /\ pc = "sort_crit"
    /\ \E arr \in SortedPermutations(Atoms, LAMBDA a : ctl.block_criticality[a], TRUE) :
           ctl' = [ctl EXCEPT !.critindexarray = arr]
    /\ pc' = "sort_blend"
    /\ UNCHANGED <<opt, lookup, valid, clb, pbs, dev, cps, router, nets_in_lb, snc, tp,
                   err, rp>>

\* lines 508-512: std::sort with the comparator
\* seed_blend_gain[lhs] > seed_blend_gain[rhs]
SortSeedBlend ==
    /\ pc = "sort_blend"
    /\ \E arr \in SortedPermutations(Atoms, LAMBDA a : ctl.seed_blend_gain[a], TRUE) :
           ctl' = [ctl EXCEPT !.seed_blend_index_array = arr]
    /\ pc' = "sorted"
    /\ UNCHANGED <<opt, lookup, valid, clb, pbs, dev, cps, router, nets_in_lb, snc, tp,
                   err, rp>>

SeedOrderNext == LoadCriticality \/ ScoreBlock \/ SortCritIndex \/ SortSeedBlend

SeedOrderSpec == SeedOrderInit /\ [][SeedOrderNext]_vars

\* arr holds the atoms by descending key, atoms of equal key by ascending id
DescendingThenById(arr, key) ==
    \A i \in 1..(Len(arr) - 1) :
        \/ key[arr[i]] > key[arr[i + 1]]
        \/ key[arr[i]] = key[arr[i + 1]] /\ arr[i] < arr[i + 1]

\* C31: once the seed arrays are sorted, the timing array holds the atoms by
\* descending criticality and the blend array by descending blend score, and
\* atoms of equal score stand in ascending order of their ids.
C31_SeedArraysDescendingTiesById ==
    pc = "sorted" =>
        /\ DescendingThenById(ctl.critindexarray, ctl.block_criticality)
        /\ DescendingThenById(ctl.seed_blend_index_array, ctl.seed_blend_gain)

\* what the sorts do give: descending scores, every atom once
SeedArraysDescending ==
    pc = "sorted" =>
        /\ \A i \in 1..(Len(ctl.critindexarray) - 1) :
               ctl.block_criticality[ctl.critindexarray[i]]
                   >= ctl.block_criticality[ctl.critindexarray[i + 1]]
        /\ \A i \in 1..(Len(ctl.seed_blend_index_array) - 1) :
               ctl.seed_blend_gain[ctl.seed_blend_index_array[i]]
                   >= ctl.seed_blend_gain[ctl.seed_blend_index_array[i + 1]]
        /\ SeqToSet(ctl.critindexarray) = Atoms
        /\ SeqToSet(ctl.seed_blend_index_array) = Atoms

\* two atoms of equal criticality stand in descending order of their ids
SeedTieAgainstIds ==
    /\ pc = "sorted"
    /\ \E i \in 1..(Len(ctl.critindexarray) - 1) :
           /\ ctl.block_criticality[ctl.critindexarray[i]]
                  = ctl.block_criticality[ctl.critindexarray[i + 1]]
           /\ ctl.critindexarray[i] > ctl.critindexarray[i + 1]

\* the atoms that are in one molecule only
AtomsOfOneMolecule == {a \in Atoms : Cardinality(atom_molecules(a)) = 1}
OnlyMolecule(a) == CHOOSE m \in atom_molecules(a) : TRUE

\* max_molecule_inputs * 10 * MaxCrit times the score with the exact ratio
ExactBlendTimesMaxInputs(a) ==
    MaxOf({(ctl.block_criticality[a] * max_molecule_inputs
                + MaxCrit * molecule(m).num_ext_inputs)
              * (Cardinality(MoleculeAtoms(m)) + 4) : m \in atom_molecules(a)})

\* C32: the blend score of an atom is the largest value over its molecules
\* of (0.5 * crit + 0.5 * num_ext_inputs / max_inputs) * (1 + 0.2 * (blocks - 1))
\* with the exact ratio; of two atoms of equal criticality whose only
\* molecules have as many blocks, the one with more external inputs has the
\* strictly higher score.
C32_BlendScoreUsesExactRatio ==
    pc = "sorted" =>
        /\ \A a \in Atoms :
               ctl.seed_blend_gain[a] * max_molecule_inputs = ExactBlendTimesMaxInputs(a)
        /\ \A a, b \in AtomsOfOneMolecule :
               (/\ ctl.block_criticality[a] = ctl.block_criticality[b]
                /\ Cardinality(MoleculeAtoms(OnlyMolecule(a)))
                       = Cardinality(MoleculeAtoms(OnlyMolecule(b)))
                /\ molecule(OnlyMolecule(a)).num_ext_inputs
                       > molecule(OnlyMolecule(b)).num_ext_inputs)
               => ctl.seed_blend_gain[a] > ctl.seed_blend_gain[b]

\* what the code computes: the inputs of a molecule count only when the
\* molecule has max_molecule_inputs of them
BlendScoreCountsLargestMoleculesOnly ==
    pc = "sorted" =>
        \A a \in Atoms :
            ctl.seed_blend_gain[a] =
                MaxOf({(ctl.block_criticality[a]
                           + (IF molecule(m).num_ext_inputs = max_molecule_inputs
                              THEN MaxCrit ELSE 0))
                         * (Cardinality(MoleculeAtoms(m)) + 4) : m \in atom_molecules(a)})

\* l3 has more external inputs than l4 and the same criticality, and the
\* same blend score
BlendScoresEqualDespiteInputs ==
    /\ pc = "sorted"
    /\ molecule(OnlyMolecule(3)).num_ext_inputs > molecule(OnlyMolecule(4)).num_ext_inputs
    /\ ctl.block_criticality[3] = ctl.block_criticality[4]
    /\ ctl.seed_blend_gain[3] = ctl.seed_blend_gain[4]

(***************************************************************************)
(* Clock nets in the gain statistics: two flip-flops on one clock net that *)
(* a LUT drives, committed as the first seed with global_clocks on or off. *)
(***************************************************************************)
\* f1 and f2 are clocked by net 4, which l3 drives; f2 -> l4 -> f1 -> l3
GlobalNetlist ==
    [model |-> <<"ff", "ff", "lut", "lut">>,
     pins  |-> << <<Pin("D", 0, "in", 1), Pin("clk", 0, "clk", 4), Pin("Q", 0, "out", 2)>>,
                  <<Pin("clk", 0, "clk", 4), Pin("Q", 0, "out", 3)>>,
                  <<Pin("in", 0, "in", 2), Pin("out", 0, "out", 4)>>,
                  <<Pin("in", 0, "in", 3), Pin("out", 0, "out", 1)>> >>,
     num_nets |-> 4,
     molecules |-> << Mol(<<1>>, FALSE, FALSE, 1, 4, 1), Mol(<<2>>, FALSE, FALSE, 1, 3, 0),
                      Mol(<<3>>, FALSE, FALSE, 1, 2, 1), Mol(<<4>>, FALSE, FALSE, 1, 1, 1) >>,
     crit |-> <<3, 2, 1, 0>>,
     is_clock |-> {4}]

\* the packer before the first seed, any atom the most critical one, the
\* clocks global or not
GlobalNetInit ==
    /\ \E first \in Atoms :
       \E global_clocks \in BOOLEAN :
       \E pin_crit \in [Atoms -> {0, MaxCrit}] :
           opt = [scn |-> 11, netlist |-> GlobalNetlist,
                  allow_unrelated_clustering |-> TRUE,
                  cluster_seed_type |-> "VPACK_TIMING", aspect_den |-> 1,
                  global_clocks |-> global_clocks, pin_crit |-> pin_crit,
                  critindexarray |-> <<first>> \o SortedSeq(Atoms \ {first}),
                  molecule_array |-> <<4, 3, 2, 1>>]
    /\ lookup = [atom_clb |-> [a \in Atoms |-> NO_CLUSTER],
                 atom_pb  |-> [a \in Atoms |-> NoPb],
                 pb_atom  |-> [c \in ClbIndexes |-> [n \in Nodes |-> 0]]]
    /\ valid = [m \in 1..Len(opt.netlist.molecules) |-> TRUE]
    /\ clb = [c \in ClbIndexes |-> [name |-> 0, type |-> 0, pb |-> FALSE]]
    /\ pbs = [c \in ClbIndexes |-> EmptyTree]
    /\ ctl = [num_clb |-> 0, seedindex |-> 0, savedseedindex |-> 0,
              detailed_routing_stage |-> E_DETAILED_ROUTE_AT_END_ONLY,
              is_cluster_legal |-> FALSE, istart |-> 0, next_molecule |-> 0,
              prev_molecule |-> 0, block_pack_status |-> "BLK_STATUS_UNDEFINED",
              num_unrelated_clustering_attempts |-> 0, discards |-> 0]
    /\ dev = [nx |-> 1, ny |-> 1,
              num_used_instances_type |-> [t \in BlockTypes |-> 0],
              num_instances_type |-> [t \in BlockTypes |-> 0]]
    /\ cps = reset_cluster_placement_stats(0, 0)
    /\ router = [live |-> 0, targets |-> {}, modes |-> {}, fails |-> 0,
                 intra_lb_routing |-> <<>>]
    /\ nets_in_lb = [c \in ClbIndexes |-> <<>>]
    /\ snc = [i |-> 0, j |-> 0, count |-> 0, success |-> FALSE]
    /\ tp = NoFrame
    /\ pc = "seed"
    /\ err = ""
    /\ rp = NoPlaceFile

\* do_clustering up to the commit of the first seed
GlobalNetSpec == GlobalNetInit /\ [][GainNext]_vars

ClusteredAtoms == {a \in Atoms : atom_clb(lookup, a) # NO_CLUSTER}
NetsOfAtom(a) == {block_pins(a)[i].net : i \in 1..Len(block_pins(a))}

\* the one atom a is committed to the first cluster and nothing else is
OnlySeedCommitted(a) == pc = "grow" /\ ClusteredAtoms = {a} /\ atom_clb(lookup, a) = 0

\* the atoms that meet atom a on global nets only
OnlyThroughGlobal(a) ==
    {b \in Atoms \ {a} :
        /\ NetsOfAtom(a) \cap NetsOfAtom(b) # {}
        /\ \A n \in NetsOfAtom(a) \cap NetsOfAtom(b) : IsGlobalNet(n)}

\* the pins atom b has on the nets of atom a
PinsOnNetsOf(a, b) ==
    Cardinality({i \in 1..Len(block_pins(b)) : block_pins(b)[i].net \in NetsOfAtom(a)})

\* atom b has no gain and no mark in any pb of the first cluster
NoGainFor(b) ==
    \A n \in Nodes :
        LET st == pbs[0][n].stats
        IN  /\ st.sharinggain[b] = 0 /\ st.timinggain[b] = 0 /\ st.gain[b] = -1
            /\ b \notin SeqToSet(st.marked_blocks)

\* atom b is marked with the sharing gain of its pins on the nets of atom
\* a, and with no timing gain, in every pb above atom a
SharingGainOnlyFor(a, b) ==
    \A n \in SeqToSet(AncestorsOf(atom_pb(lookup, a)[2])) :
        LET st == pbs[0][n].stats
        IN  /\ st.sharinggain[b] = PinsOnNetsOf(a, b) /\ st.timinggain[b] = 0
            /\ st.gain[b] >= 0
            /\ b \in SeqToSet(st.marked_blocks)

C33_WitnessGlobalClocks ==
    /\ OnlySeedCommitted(3) /\ GlobalClocks /\ opt.pin_crit[2] = MaxCrit
    /\ 2 \in OnlyThroughGlobal(3) /\ NoGainFor(2)
    /\ 4 \in SeqToSet(pbs[0][pb_graph_head(clb[0].type)].stats.marked_nets)

(***************************************************************************)
(* The net counters of the pb statistics and the exported nets.            *)
(***************************************************************************)
\* the statistics of the open cluster are up to date: update_cluster_stats
\* has run for every molecule that try_pack_molecule accepted
StatsSettled == pc \in {"grow", "end_route", "end_branch"}

\* the atoms of cluster c that sit in a pb below node n
CommittedBeneath(c, n) ==
    {a \in Atoms : /\ atom_clb(lookup, a) = c /\ atom_pb(lookup, a) # NoPb
                   /\ n \in SeqToSet(AncestorsOf(atom_pb(lookup, a)[2]))}

\* the connected pins the atoms of S have on a net
PinsOfAtomsOn(net, S) ==
    Cardinality({p \in SeqToSet(net_pins(net)) : p[1] \in S})

TimesIn(seq, x) == Cardinality({i \in 1..Len(seq) : seq[i] = x})

\* the clusters that were finalized
FinalizedClusters == SeqToSet(router.intra_lb_routing)

\* C34: after any sequence of commits into a cluster, in every pb with
\* statistics and for every net of at most 256 sinks,
\* num_pins_of_net_in_pb counts the connected pins of the net on the atoms
\* committed beneath the pb and the net is in marked_nets once exactly when
\* that count is positive; the nets_in_lb of a finalized cluster are exactly
\* its marked nets with 1 to 3 pins outside the cluster.
C34_NetCountersMatchCommittedPins ==
    /\ StatsSettled =>
           \A n \in Nodes : pbs[ctl.num_clb - 1][n].pb_stats =>
               \A net \in 1..NL.num_nets : Len(net_sinks(net)) <= AAPACK_MAX_NET_SINKS_IGNORE =>
                   LET st     == pbs[ctl.num_clb - 1][n].stats
                       inside == PinsOfAtomsOn(net, CommittedBeneath(ctl.num_clb - 1, n))
                   IN  /\ st.num_pins_of_net_in_pb[net] = inside
                       /\ TimesIn(st.marked_nets, net) = IF inside > 0 THEN 1 ELSE 0
    /\ pc # "fatal" =>
           \A c \in FinalizedClusters :
               /\ \A net \in 1..NL.num_nets :
                      LET inside  == PinsOfAtomsOn(net, {a \in Atoms : atom_clb(lookup, a) = c})
                          outside == Len(net_pins(net)) - inside
                      IN  TimesIn(nets_in_lb[c], net)
                              = IF /\ Len(net_sinks(net)) <= AAPACK_MAX_NET_SINKS_IGNORE
                                   /\ inside > 0 /\ outside \in 1..3
                                THEN 1 ELSE 0

\* a cluster of two atoms or more was finalized with an exported net and a
\* net it holds whole, and the next cluster has its seed committed
C34_Witness ==
    /\ pc = "grow" /\ ctl.num_clb = 2 /\ 0 \in FinalizedClusters
    /\ Cardinality({a \in Atoms : atom_clb(lookup, a) = 0}) >= 2
    /\ nets_in_lb[0] # <<>>
    /\ \E net \in 1..NL.num_nets :
           /\ PinsOfAtomsOn(net, {a \in Atoms : atom_clb(lookup, a) = 0}) = Len(net_pins(net))
           /\ Len(net_pins(net)) > 0
    /\ pbs[1][pb_graph_head(clb[1].type)].stats.marked_nets # <<>>

(***************************************************************************)
(* What a failed call of try_pack_molecule leaves of the committed state.  *)
(***************************************************************************)
\* the atoms that were in a cluster when the call began
CommittedAtEntry == {a \in Atoms : tp.entry.lk.atom_clb[a] # NO_CLUSTER}

\* the pb of node n of the cluster of the call is allocated as at entry
PbStillThere(n) ==
    LET now == pbs[tp.clb_index][n]
        was == tp.entry.pb[n]
    IN  /\ now.pb_stats = was.pb_stats /\ now.name = was.name
        /\ now.child_pbs = was.child_pbs /\ now.mode = was.mode

\* C35: when try_pack_molecule returns a failure, no atom of the molecule
\* has a cluster or a pb, the atoms committed before keep their cluster and
\* pb, no valid flag has changed, no primitive was committed in the
\* placement stats, and the pb of every committed atom and the pbs above it
\* are still allocated.
C35_FailedCallLeavesCommittedAtoms ==
    (Returned /\ tp.status # "BLK_PASSED") =>
        /\ \A a \in MoleculeAtoms(tp.molecule) :
               atom_clb(lookup, a) = NO_CLUSTER /\ atom_pb(lookup, a) = NoPb
        /\ \A a \in CommittedAtEntry :
               /\ atom_clb(lookup, a) = tp.entry.lk.atom_clb[a]
               /\ atom_pb(lookup, a) = tp.entry.lk.atom_pb[a]
               /\ pb_atom(lookup, atom_pb(lookup, a)) = a
        /\ \A m \in Molecules : valid[m] = tp.entry.valid[m]
        /\ cps.committed = tp.entry.committed
        /\ \A a \in CommittedAtEntry : atom_clb(lookup, a) = tp.clb_index =>
               /\ pbs[tp.clb_index][atom_pb(lookup, a)[2]].name = a
               /\ \A n \in {atom_pb(lookup, a)[2]} \cup SeqToSet(AncestorsOf(atom_pb(lookup, a)[2])) :
                      PbStillThere(n) /\ pbs[tp.clb_index][n].pb_stats

\* a call in the grow loop of a cluster that holds an atom failed after it
\* had placed a slot, and a pb was freed on the way back
C35_Witness ==
    /\ pc = "grow_ret" /\ tp.status # "BLK_PASSED"
    /\ tp.last.failed_location >= 1 /\ tp.last.undo # <<>>
    /\ \E a \in CommittedAtEntry : tp.entry.lk.atom_clb[a] = tp.clb_index

(***************************************************************************)
(* A cluster whose queue holds several molecules of the same atoms: the    *)
(* seed l3 feeds l1 and reads f2, and l1 and f2 make the molecule {l1, f2}.*)
(***************************************************************************)
\* l3 -> l1 -> f2 -> l3; l4 reads the net fourth
RebuildNetlist(fourth) ==
    [model |-> <<"lut", "ff", "lut", "lut">>,
     pins  |-> << <<Pin("in", 0, "in", 1), Pin("out", 0, "out", 2)>>,
                  <<Pin("D", 0, "in", 2), Pin("Q", 0, "out", 3)>>,
                  <<Pin("in", 0, "in", 3), Pin("out", 0, "out", 1)>>,
                  <<Pin("in", 0, "in", fourth)>> >>,
     num_nets |-> 3,
     molecules |-> << Mol(<<1, 2>>, TRUE, FALSE, 1, 5, 1),
                      Mol(<<1>>, FALSE, FALSE, 1, 2, 1),
                      Mol(<<2>>, FALSE, FALSE, 1, 1, 1),
                      Mol(<<3>>, FALSE, FALSE, 1, 4, 1),
                      Mol(<<4>>, FALSE, FALSE, 1, 3, 1) >>,
     crit |-> <<2, 1, 3, 0>>]

\* the packer before the first seed; l3 is the most critical atom
RebuildInit ==
    /\ \E fourth \in 1..3 :
       \E unrelated \in BOOLEAN :
       \E seed \in {"VPACK_TIMING", "VPACK_MAX_INPUTS"} :
           opt = [scn |-> 12, netlist |-> RebuildNetlist(fourth),
                  allow_unrelated_clustering |-> unrelated,
                  cluster_seed_type |-> seed, aspect_den |-> 1,
                  critindexarray |-> <<3, 1, 2, 4>>, molecule_array |-> <<3, 2, 5, 4, 1>>]
    /\ lookup = [atom_clb |-> [a \in Atoms |-> NO_CLUSTER],
                 atom_pb  |-> [a \in Atoms |-> NoPb],
                 pb_atom  |-> [c \in ClbIndexes |-> [n \in Nodes |-> 0]]]
    /\ valid = [m \in 1..Len(opt.netlist.molecules) |-> TRUE]
    /\ clb = [c \in ClbIndexes |-> [name |-> 0, type |-> 0, pb |-> FALSE]]
    /\ pbs = [c \in ClbIndexes |-> EmptyTree]
    /\ ctl = [num_clb |-> 0, seedindex |-> 0, savedseedindex |-> 0,
              detailed_routing_stage |-> E_DETAILED_ROUTE_AT_END_ONLY,
              is_cluster_legal |-> FALSE, istart |-> 0, next_molecule |-> 0,
              prev_molecule |-> 0, block_pack_status |-> "BLK_STATUS_UNDEFINED",
              num_unrelated_clustering_attempts |-> 0, discards |-> 0]
    /\ dev = [nx |-> 1, ny |-> 1,
              num_used_instances_type |-> [t \in BlockTypes |-> 0],
              num_instances_type |-> [t \in BlockTypes |-> 0]]
    /\ cps = reset_cluster_placement_stats(0, 0)
    /\ router = [live |-> 0, targets |-> {}, modes |-> {}, fails |-> 0,
                 intra_lb_routing |-> <<>>]
    /\ nets_in_lb = [c \in ClbIndexes |-> <<>>]
    /\ snc = [i |-> 0, j |-> 0, count |-> 0, success |-> FALSE]
    /\ tp = NoFrame
    /\ pc = "seed"
    /\ err = ""
    /\ rp = NoPlaceFile

RebuildSpec == RebuildInit /\ [][Next]_vars

(***************************************************************************)
(* The candidate queue of the root pb of the open cluster.                 *)
(***************************************************************************)
Unclustered(m) == \A a \in MoleculeAtoms(m) : atom_clb(lookup, a) = NO_CLUSTER

\* the molecules waiting in the queue of the root pb of the open cluster
QueuedMolecules ==
    LET st == pbs[ctl.num_clb - 1][pb_graph_head(clb[ctl.num_clb - 1].type)].stats
    IN  IF st.num_feasible_blocks = NOT_VALID THEN {}
        ELSE {st.feasible_blocks[i] : i \in 1..st.num_feasible_blocks}

\* the candidate handed out and the candidates still queued are valid
\* molecules of unclustered atoms
QueueSound ==
    /\ ctl.next_molecule # 0 => valid[ctl.next_molecule] /\ Unclustered(ctl.next_molecule)
    /\ \A m \in QueuedMolecules : valid[m] /\ Unclustered(m)

\* C36: no assertion of get_highest_gain_molecule fails: every molecule the
\* candidate queue hands out is valid and has only unclustered atoms when it
\* is popped, and so has every molecule left in the queue, the queue being
\* rebuilt after every successful pack.
C36_PoppedMoleculeValidAndUnclustered ==
    [][(pc = "ucs_seed" \/ pc = "grow_ret")
           => (err' # "assert" /\ (pc' = "grow" => QueueSound'))]_vars

\* after a second molecule was packed into the open cluster the rebuilt
\* queue handed out a candidate and holds another one
C36_Witness ==
    /\ pc = "grow" /\ ctl.next_molecule # 0 /\ ctl.num_unrelated_clustering_attempts = 0
    /\ ctl.block_pack_status = "BLK_PASSED"
    /\ Cardinality({a \in Atoms : atom_clb(lookup, a) = ctl.num_clb - 1}) >= 2
    /\ QueuedMolecules # {}

(***************************************************************************)
(* The candidate queue of one root pb under get_highest_gain_molecule when  *)
(* the netlist has more molecules than the array has entries.  The four     *)
(* atoms are LUTs and every molecule holds one of them: atom a is the root  *)
(* of the molecules of several pack patterns.  The lists a source scans are *)
(* inputs: any prefix of the molecule array of a few lengths.  tp records   *)
(* the count each source left behind in the last request.                    *)
(***************************************************************************)
MaxMolecules == 32

\* the base gains of the molecules: scattered or all equal
StageOrders == {"mixed", "flat"}

StageBaseGain(order, i) ==
    IF order = "mixed" THEN (i * 7) % MaxMolecules ELSE 1

StageNetlist(order) ==
    [model |-> <<"lut", "lut", "lut", "lut">>,
     pins  |-> << <<Pin("in", 0, "in", 4), Pin("out", 0, "out", 1)>>,
                  <<Pin("in", 0, "in", 1), Pin("out", 0, "out", 2)>>,
                  <<Pin("in", 0, "in", 2), Pin("out", 0, "out", 3)>>,
                  <<Pin("in", 0, "in", 3), Pin("out", 0, "out", 4)>> >>,
     num_nets |-> 4,
     molecules |-> [i \in 1..MaxMolecules |->
                        Mol(<<(i % 4) + 1>>, FALSE, FALSE, 1, StageBaseGain(order, i), 1)],
     crit |-> <<0, 0, 0, 0>>]

StageStats == pbs[0][1].stats

\* the source did not run in the last request
NOT_RUN == NOT_VALID - 1

StageInit ==
    /\ \E order \in StageOrders :
           opt = [scn |-> 13, netlist |-> StageNetlist(order),
                  allow_unrelated_clustering |-> FALSE,
                  cluster_seed_type |-> "VPACK_TIMING", aspect_den |-> 1,
                  critindexarray |-> <<>>, molecule_array |-> <<>>]
    /\ pbs = [c \in ClbIndexes |->
                 [EmptyTree EXCEPT ![1].stats.gain = [a \in Atoms |-> 0]]]
    /\ lookup = [atom_clb |-> [a \in Atoms |-> NO_CLUSTER],
                 atom_pb  |-> [a \in Atoms |-> NoPb],
                 pb_atom  |-> [c \in ClbIndexes |-> [n \in Nodes |-> 0]]]
    /\ valid = [m \in 1..Len(opt.netlist.molecules) |-> TRUE]
    /\ clb = [c \in ClbIndexes |-> [name |-> 0, type |-> 0, pb |-> FALSE]]
    /\ ctl = [num_clb |-> 0]
    /\ dev = [nx |-> 1, ny |-> 1]
    /\ cps = reset_cluster_placement_stats(1, 0)
    /\ router = [live |-> 0, targets |-> {}, modes |-> {}, fails |-> 0,
                 intra_lb_routing |-> <<>>]
    /\ nets_in_lb = [c \in ClbIndexes |-> <<>>]
    /\ snc = [i |-> 0, j |-> 0, count |-> 0, success |-> FALSE]
    /\ tp = [op |-> "", molecule |-> 0, offered |-> 0,
             marked |-> NOT_RUN, high_fanout |-> NOT_RUN, transitive |-> NOT_RUN]
    /\ pc = "stages"
    /\ err = ""
    /\ rp = NoPlaceFile

\* the first k molecules in array order
FirstMolecules(k) == [i \in 1..k |-> i]

\* the lengths of the lists a source scans
StageOffers == {0, AAPACK_MAX_TRANSITIVE_EXPLORE + 1, AAPACK_MAX_HIGH_FANOUT_EXPLORE,
                MaxMolecules}

\* first source: the queue is rebuilt when it is NOT_VALID
StageMarked(st, mols) ==
    IF st.num_feasible_blocks # NOT_VALID THEN st
    ELSE ScanAndAdd([st EXCEPT !.num_feasible_blocks = 0,
                               !.feasible_blocks = <<>>,
                               !.explore_transitive_fanout = TRUE],
                    mols, lookup, valid, cps, AAPACK_MAX_FEASIBLE_BLOCK_ARRAY_SIZE, TRUE).st

StageHighFanoutRuns(st) == st.num_feasible_blocks = 0 /\ st.tie_break_high_fanout_net # 0

\* second source: the loop stops after AAPACK_MAX_HIGH_FANOUT_EXPLORE adds
StageHighFanout(st, mols) ==
    IF ~StageHighFanoutRuns(st) THEN st
    ELSE [ScanAndAdd(st, SubSeq(mols, 1, IF Len(mols) < AAPACK_MAX_HIGH_FANOUT_EXPLORE
                                         THEN Len(mols) ELSE AAPACK_MAX_HIGH_FANOUT_EXPLORE),
                     lookup, valid, cps,
                     IF AAPACK_MAX_FEASIBLE_BLOCK_ARRAY_SIZE <= AAPACK_MAX_HIGH_FANOUT_EXPLORE
                     THEN AAPACK_MAX_FEASIBLE_BLOCK_ARRAY_SIZE
                     ELSE AAPACK_MAX_HIGH_FANOUT_EXPLORE, TRUE).st
          EXCEPT !.tie_break_high_fanout_net = 0]

StageTransitiveRuns(st) ==
    /\ st.num_feasible_blocks = 0
    /\ st.tie_break_high_fanout_net = 0
    /\ st.explore_transitive_fanout

\* third source: the list is loaded and offered, or dropped when it was
\* loaded before
StageTransitive(st, mols) ==
    IF ~StageTransitiveRuns(st) THEN st
    ELSE IF ~st.transitive_fanout_candidates.loaded
    THEN AddLoadedCandidates([st EXCEPT !.transitive_fanout_candidates =
                                            [loaded |-> TRUE, list |-> mols]],
                             lookup, valid, cps, TRUE).st
    ELSE [st EXCEPT !.transitive_fanout_candidates = [loaded |-> FALSE, list |-> <<>>],
                    !.explore_transitive_fanout = FALSE]

\* the list lengths to draw for a source: one empty list when it does not run
OffersIf(runs) == IF runs THEN StageOffers ELSE {0}

\* get_highest_gain_molecule: the three sources, then the pop
StageRequest ==
    /\ pc = "stages"
    /\ \E k1 \in OffersIf(StageStats.num_feasible_blocks = NOT_VALID) :
       \E st1 \in {StageMarked(StageStats, FirstMolecules(k1))} :
       \E k2 \in OffersIf(StageHighFanoutRuns(st1)) :
       \E st2 \in {StageHighFanout(st1, FirstMolecules(k2))} :
       \E k3 \in OffersIf(StageTransitiveRuns(st2)
                          /\ ~st2.transitive_fanout_candidates.loaded) :
       \E st3 \in {StageTransitive(st2, FirstMolecules(k3))} :
       \E r \in {PopCandidate([st |-> st3, ok |-> TRUE], valid)} :
           /\ pbs' = [pbs EXCEPT ![0][1].stats = r.st]
           /\ tp' = [op |-> "request", molecule |-> r.molecule,
                     offered |-> IF StageStats.num_feasible_blocks = NOT_VALID THEN k1
                                 ELSE IF StageHighFanoutRuns(st1) THEN k2 ELSE k3,
                     marked |-> IF StageStats.num_feasible_blocks = NOT_VALID
                                THEN st1.num_feasible_blocks ELSE NOT_RUN,
                     high_fanout |-> IF StageHighFanoutRuns(st1)
                                     THEN st2.num_feasible_blocks ELSE NOT_RUN,
                     transitive |-> IF StageTransitiveRuns(st2)
                                         /\ ~st2.transitive_fanout_candidates.loaded
                                    THEN st3.num_feasible_blocks ELSE NOT_RUN]
    /\ UNCHANGED <<rp, opt, lookup, valid, clb, ctl, dev, cps, router, nets_in_lb, snc, pc, err>>

\* update_cluster_stats after a molecule was packed: the queue of the pb is
\* NOT_VALID again, and the marking may have stored a net of many sinks
StagePacked ==
    /\ pc = "stages"
    /\ tp.molecule # 0
    /\ \E net \in {0, 1} :
           pbs' = [pbs EXCEPT ![0][1].stats.num_feasible_blocks = NOT_VALID,
                              ![0][1].stats.tie_break_high_fanout_net = net]
    /\ tp' = [op |-> "packed", molecule |-> 0, offered |-> 0,
              marked |-> NOT_RUN, high_fanout |-> NOT_RUN, transitive |-> NOT_RUN]
    /\ UNCHANGED <<rp, opt, lookup, valid, clb, ctl, dev, cps, router, nets_in_lb, snc, pc, err>>

StageNext == StageRequest \/ StagePacked

StageSpec == StageInit /\ [][StageNext]_vars

\* the count a source left is below its cap
BelowCap(n, max_queue_size) == n = NOT_RUN \/ (0 <= n /\ n <= max_queue_size - 1)

\* C37: num_feasible_blocks of a pb is NOT_VALID or between 0 and 29, the
\* entries in use lie inside the array of 30, and each source leaves at most
\* its own cap less one: 29 for the marked blocks, 9 for the net of many
\* sinks and 3 for the transitive fanout
C37_QueueCountInsideTheArray ==
    /\ \/ StageStats.num_feasible_blocks = NOT_VALID
       \/ /\ 0 <= StageStats.num_feasible_blocks
          /\ StageStats.num_feasible_blocks <= AAPACK_MAX_FEASIBLE_BLOCK_ARRAY_SIZE - 1
          /\ StageStats.num_feasible_blocks = Len(StageStats.feasible_blocks)
    /\ Len(StageStats.feasible_blocks) <= AAPACK_MAX_FEASIBLE_BLOCK_ARRAY_SIZE
    /\ BelowCap(tp.marked, AAPACK_MAX_FEASIBLE_BLOCK_ARRAY_SIZE)
    /\ BelowCap(tp.high_fanout, AAPACK_MAX_HIGH_FANOUT_EXPLORE)
    /\ BelowCap(tp.transitive, AAPACK_MAX_TRANSITIVE_EXPLORE)

\* the marked blocks offered more molecules than the array holds and the
\* queue stopped at 29
C37_Witness ==
    /\ tp.op = "request"
    /\ tp.offered > AAPACK_MAX_FEASIBLE_BLOCK_ARRAY_SIZE
    /\ tp.marked = AAPACK_MAX_FEASIBLE_BLOCK_ARRAY_SIZE - 1

\* the smaller caps were reached too
C37_WitnessHighFanout ==
    tp.offered = AAPACK_MAX_HIGH_FANOUT_EXPLORE /\ tp.high_fanout = AAPACK_MAX_HIGH_FANOUT_EXPLORE - 1

C37_WitnessTransitive ==
    tp.offered > AAPACK_MAX_TRANSITIVE_EXPLORE /\ tp.transitive = AAPACK_MAX_TRANSITIVE_EXPLORE - 1

(***************************************************************************)
(* The unrelated attempts of the grow loop: the packer on a netlist whose   *)
(* atoms have no net in common but the nets of an adder, which has no       *)
(* primitive in the cluster of the seed.                                    *)
(***************************************************************************)
\* adder z reads net 3 and drives net 1 into LUT s and net 2 into the second
\* atom, a flip-flop or a LUT; LUT u has no input and drives net 3
UnrelatedNetlist(second) ==
    [model |-> <<"lut", second, "lut", "adder">>,
     pins  |-> << <<Pin("in", 0, "in", 1)>>,
                  <<Pin(IF second = "ff" THEN "D" ELSE "in", 0, "in", 2)>>,
                  <<Pin("out", 0, "out", 3)>>,
                  <<Pin("a", 0, "in", 3), Pin("sumout", 0, "out", 1),
                    Pin("cout", 0, "out", 2)>> >>,
     num_nets |-> 3,
     molecules |-> << Mol(<<1>>, FALSE, FALSE, 1, 4, 1), Mol(<<2>>, FALSE, FALSE, 1, 3, 1),
                      Mol(<<3>>, FALSE, FALSE, 1, 2, 0), Mol(<<4>>, FALSE, FALSE, 1, 1, 1) >>,
     crit |-> <<3, 2, 1, 0>>]

\* the packer before the first seed; s is the most critical atom
UnrelatedInit ==
    /\ \E second \in {"ff", "lut"} :
       \E unrelated \in BOOLEAN :
           opt = [scn |-> 14, netlist |-> UnrelatedNetlist(second),
                  allow_unrelated_clustering |-> unrelated,
                  cluster_seed_type |-> "VPACK_TIMING", aspect_den |-> 1,
                  critindexarray |-> <<1, 2, 3, 4>>, molecule_array |-> <<4, 3, 2, 1>>]
    /\ lookup = [atom_clb |-> [a \in Atoms |-> NO_CLUSTER],
                 atom_pb  |-> [a \in Atoms |-> NoPb],
                 pb_atom  |-> [c \in ClbIndexes |-> [n \in Nodes |-> 0]]]
    /\ valid = [m \in 1..Len(opt.netlist.molecules) |-> TRUE]
    /\ clb = [c \in ClbIndexes |-> [name |-> 0, type |-> 0, pb |-> FALSE]]
    /\ pbs = [c \in ClbIndexes |-> EmptyTree]
    /\ ctl = [num_clb |-> 0, seedindex |-> 0, savedseedindex |-> 0,
              detailed_routing_stage |-> E_DETAILED_ROUTE_AT_END_ONLY,
              is_cluster_legal |-> FALSE, istart |-> 0, next_molecule |-> 0,
              prev_molecule |-> 0, block_pack_status |-> "BLK_STATUS_UNDEFINED",
              num_unrelated_clustering_attempts |-> 0, discards |-> 0]
    /\ dev = [nx |-> 1, ny |-> 1,
              num_used_instances_type |-> [t \in BlockTypes |-> 0],
              num_instances_type |-> [t \in BlockTypes |-> 0]]
    /\ cps = reset_cluster_placement_stats(0, 0)
    /\ router = [live |-> 0, targets |-> {}, modes |-> {}, fails |-> 0,
                 intra_lb_routing |-> <<>>]
    /\ nets_in_lb = [c \in ClbIndexes |-> <<>>]
    /\ snc = [i |-> 0, j |-> 0, count |-> 0, success |-> FALSE]
    /\ tp = NoFrame
    /\ pc = "seed"
    /\ err = ""
    /\ rp = NoPlaceFile

UnrelatedSpec == UnrelatedInit /\ [][Next]_vars

\* the return of try_pack_molecule in the grow loop
PackPassed == pc = "grow_ret" /\ tp.status = "BLK_PASSED"
PackFailed == pc = "grow_ret" /\ tp.status # "BLK_PASSED"

\* what get_highest_gain_molecule answers in the request of this step
RelatedAtRequest ==
    get_highest_gain_molecule(StatsAtRequest, lookup', valid, cps, nets_in_lb,
                              RequestCluster).molecule

\* what the unrelated selector answers after that request
UnrelatedAtRequest ==
    get_free_molecule_with_most_ext_inputs_for_cluster(pbs'[RequestCluster][RequestRoot],
                                                       cps', valid)

\* the request that follows a molecule that passed starts from 0 attempts:
\* without a related candidate the unrelated selector is asked
CounterResetByPass ==
    PackPassed =>
        IF opt.allow_unrelated_clustering /\ RelatedAtRequest = 0
        THEN /\ ctl'.num_unrelated_clustering_attempts = 1
             /\ ctl'.next_molecule = UnrelatedAtRequest
        ELSE /\ ctl'.num_unrelated_clustering_attempts = 0
             /\ ctl'.next_molecule = RelatedAtRequest

\* the molecule that failed was the unrelated one: no related candidate is
\* left, no second unrelated molecule is asked for and the request returns
\* nothing
NoSecondUnrelated ==
    (PackFailed /\ ctl.num_unrelated_clustering_attempts = 1) =>
        /\ RelatedAtRequest = 0
        /\ ctl'.next_molecule = 0
        /\ ctl'.num_unrelated_clustering_attempts = 1

\* without a candidate the grow loop is left for the route of the cluster
LoopEndsWithoutCandidate ==
    (pc = "grow" /\ ctl.next_molecule = 0) => pc' = "end_route"

\* C38: while a cluster grows, at most one unrelated molecule is tried
\* between two molecules that pass: when the unrelated molecule fails, the
\* next request returns nothing and the grow loop of the cluster ends; a
\* molecule that passes sets the attempt counter back to 0.
C38_OneUnrelatedAttemptBetweenPasses ==
    [][(CounterResetByPass /\ NoSecondUnrelated /\ LoopEndsWithoutCandidate)]_vars

\* the atoms of molecule m have no gain in the root pb of cluster c
NoRelation(m, c) ==
    \A a \in MoleculeAtoms(m) : pbs[c][pb_graph_head(clb[c].type)].stats.gain[a] = -1

\* an unrelated molecule failed to pack and the request after it returned
\* nothing
C38_Witness ==
    /\ pc = "grow"
    /\ opt.allow_unrelated_clustering
    /\ ctl.next_molecule = 0
    /\ ctl.num_unrelated_clustering_attempts = 1
    /\ ctl.block_pack_status # "BLK_PASSED"
    /\ ctl.prev_molecule # 0 /\ tp.molecule = ctl.prev_molecule /\ tp.ret = "grow"
    /\ NoRelation(ctl.prev_molecule, ctl.num_clb - 1)

\* a second unrelated molecule is asked for after the first one passed
C38_WitnessAfterPass ==
    /\ pc = "grow"
    /\ ctl.next_molecule # 0
    /\ ctl.num_unrelated_clustering_attempts = 1
    /\ ctl.block_pack_status = "BLK_PASSED"
    /\ NoRelation(ctl.next_molecule, ctl.num_clb - 1)
    /\ Cardinality({a \in Atoms : atom_clb(lookup, a) = ctl.num_clb - 1}) >= 2

(***************************************************************************)
(* num_child_blocks_in_pb and the pbs revert_place_atom_block frees.        *)
(***************************************************************************)
\* the positions of do_clustering outside try_pack_molecule at which a
\* cluster is being built: in start_new_cluster, and in the grow loop
SeedPoints == {"snc_type", "snc_mode", "snc_ret", "snc_after", "ucs_seed"}
GrowPoints == {"grow", "grow_ret", "end_route", "end_branch"}
OpenCluster == IF pc \in SeedPoints THEN ctl.num_clb ELSE ctl.num_clb - 1
HasOpenCluster == pc \in SeedPoints \cup GrowPoints /\ clb[OpenCluster].pb

\* the atoms of a molecule that passed and whose update_cluster_stats is
\* still to run: the seed until ucs_seed, the candidate at grow_ret
AwaitingStats ==
    IF pc \in SeedPoints THEN {a \in Atoms : atom_clb(lookup, a) = ctl.num_clb}
    ELSE IF pc = "grow_ret" /\ tp.status = "BLK_PASSED" THEN MoleculeAtoms(tp.molecule)
    ELSE {}

\* every pb with stats counts the committed atoms beneath it
ChildCountsMatch ==
    HasOpenCluster =>
        \A n \in Nodes :
            pbs[OpenCluster][n].pb_stats =>
                pbs[OpenCluster][n].stats.num_child_blocks_in_pb
                    = Cardinality(CommittedBeneath(OpenCluster, n) \ AwaitingStats)

\* the pb of node n is allocated in tree T
Allocated(T, n) == T[n].pb_stats \/ T[n].child_pbs \/ T[n].name # 0

\* the atoms committed when the call began that sit in pb n or beneath it
HeldAtEntry(n) ==
    {a \in CommittedAtEntry :
        /\ tp.entry.lk.atom_clb[a] = tp.clb_index
        /\ n \in {tp.entry.lk.atom_pb[a][2]} \cup SeqToSet(AncestorsOf(tp.entry.lk.atom_pb[a][2]))}

\* a pass of try_pack_molecule has reverted its placement
PassReverted == pc \in {"tp_loop", "snc_ret", "grow_ret"} /\ tp.last.undo # <<>>

\* after the reverts of a pass the root pb is allocated, and a pb that has
\* gone held no committed atom
RevertFreesOnlyUncommitted ==
    PassReverted =>
        /\ clb[tp.clb_index].pb
        /\ pbs[tp.clb_index][pb_graph_head(clb[tp.clb_index].type)].pb_stats
        /\ \A n \in Nodes :
               (Allocated(tp.entry.pb, n) /\ ~Allocated(pbs[tp.clb_index], n))
                   => HeldAtEntry(n) = {}

\* C39: between two try_pack_molecule calls every pb of the open cluster
\* that has pb_stats counts in num_child_blocks_in_pb the atoms committed
\* beneath it; revert_place_atom_block frees only pbs that hold no committed
\* atom, and never the root pb of the cluster.
C39_ChildCountsGuardTheRevert == ChildCountsMatch /\ RevertFreesOnlyUncommitted

\* a pass placed an atom under a pb that counts a committed atom, and
\* reverted it
C39_Witness ==
    /\ PassReverted /\ tp.ret = "grow"
    /\ tp.last.failed_location >= 1
    /\ \E i \in 1..Len(tp.last.primitives_list) :
           /\ tp.last.primitives_list[i] # 0
           /\ \E n \in SeqToSet(AncestorsOf(tp.last.primitives_list[i])) :
                  /\ NodeParent[n] # 0
                  /\ pbs[tp.clb_index][n].pb_stats
                  /\ pbs[tp.clb_index][n].stats.num_child_blocks_in_pb >= 1

\* the seed was reverted in start_new_cluster and the root pb stayed
C39_WitnessSeed ==
    /\ PassReverted /\ tp.ret = "snc"
    /\ tp.last.failed_location >= 1

(***************************************************************************)
(* The instances of the block types in use and the saved routings.          *)
(***************************************************************************)
\* the clusters start_new_cluster has returned: those below num_clb, and at
\* ucs_seed the one that num_clb++ is about to count
StartedClusters ==
    {c \in ClbIndexes : c < (IF pc = "ucs_seed" THEN ctl.num_clb + 1 ELSE ctl.num_clb)}

ClustersOfType(t) == {c \in StartedClusters : clb[c].pb /\ clb[c].type = t}

\* the clusters whose routing was saved: their pb_stats are freed
ClosedClusters ==
    {c \in ClbIndexes : /\ c < ctl.num_clb /\ clb[c].pb
                        /\ ~pbs[c][pb_graph_head(clb[c].type)].pb_stats}

\* C40: for every block type t, num_used_instances_type[t] is the number of
\* open or finalized clusters of type t and at most num_instances_type[t];
\* the saved intra-cluster routings are those of the finalized clusters, one
\* each, and a legal cluster about to be saved is the only one without a
\* saved routing, which is what the assertion after the save tests.
C40_InstancesAndRoutingsCounted ==
    pc # "fatal" =>
        /\ \A t \in BlockTypes :
               /\ dev.num_used_instances_type[t] = Cardinality(ClustersOfType(t))
               /\ dev.num_used_instances_type[t] <= dev.num_instances_type[t]
        /\ Len(router.intra_lb_routing) = Cardinality(ClosedClusters)
        /\ SeqToSet(router.intra_lb_routing) = ClosedClusters
        /\ (pc = "end_branch" /\ ctl.is_cluster_legal)
               => Len(router.intra_lb_routing) + 1 = ctl.num_clb

\* a cluster was discarded, another one was saved, and a cluster is open
C40_Witness ==
    /\ pc \in GrowPoints
    /\ ctl.discards >= 1
    /\ Len(router.intra_lb_routing) >= 1
    /\ \E t \in BlockTypes : dev.num_used_instances_type[t] >= 1

====
